---- MODULE Spec2Model ----
(***************************************************************************)
(* Server-side validation of TUF metadata updates in notary                *)
(* (server/handlers/validation.go): checkRoot, validateRoot,               *)
(* validateTargets, validateSnapshot, generateSnapshot and validateUpdate, *)
(* run against a metadata store that holds the current root, targets and   *)
(* snapshot of one GUN and the server's timestamp and snapshot keys.       *)
(*                                                                         *)
(* Abstractions.  A public key is identified with its key id (the id is a  *)
(* hash of the key's encoding); the id 0 is the id of the key built from   *)
(* an empty algorithm and nil bytes.  A signature is represented by the id *)
(* of the key under which it verifies over the signed body: the field      *)
(* sigs of a signed object is the set of key ids with a valid signature    *)
(* (an invalid signature counts for nothing and is left out).  A byte      *)
(* string of JSON is the value it decodes to together with the encoding    *)
(* used (enc = 0 is the encoding json.Marshal emits); sha256 is injective  *)
(* and is modelled by the byte string itself.                              *)
(***************************************************************************)
EXTENDS Integers, Sequences, FiniteSets, TLC

VARIABLES store, call

vars == <<store, call>>

\* ---------------------------------------------------------------- bounds
NumKeys == 3
MaxKeyIDs == 2
MaxThreshold == 2

KeyIDs == 1..NumKeys

\* ------------------------------------------------------------ data model
rootRole == "root"
targetsRole == "targets"
snapshotRole == "snapshot"
timestampRole == "timestamp"

CanonicalRoles == <<rootRole, targetsRole, snapshotRole, timestampRole>>

Range(s) == {s[i] : i \in DOMAIN s}

\* Sequences over S of length lo..hi.
SeqsOf(S, lo, hi) == UNION {[1..n -> S] : n \in lo..hi}

\* A nil pointer / nil byte slice, and bytes that json.Unmarshal rejects.
Nil == [kind |-> "nil"]
Corrupt == [kind |-> "corrupt"]

\* data.RootRole
RootRole(keyIDs, threshold) == [KeyIDs |-> keyIDs, Threshold |-> threshold]

\* data.SignedRoot: Signed.{Type, Version, Keys, Roles} and Signatures.
SignedRoot(type, version, keys, roles, sigs) ==
    [kind |-> "root", Type |-> type, Version |-> version, Keys |-> keys,
     Roles |-> roles, sigs |-> sigs]

\* data.SignedTargets: Signed.{Type, Version, Expires} and Signatures.
SignedTargets(type, version, expired, sigs) ==
    [kind |-> "targets", Type |-> type, Version |-> version,
     Expired |-> expired, sigs |-> sigs]

\* data.FileMeta
FileMeta(length, hashes) == [Length |-> length, Hashes |-> hashes]

\* data.SignedSnapshot: Signed.{Type, Version, Expires, Meta} and Signatures.
SignedSnapshot(type, version, expired, meta, sigs) ==
    [kind |-> "snapshot", Type |-> type, Version |-> version,
     Expired |-> expired, Meta |-> meta, sigs |-> sigs]

\* storage.MetaUpdate
MetaUpdate(role, version, data) == [Role |-> role, Version |-> version, Data |-> data]

\* JSON bytes: the decoded value and the encoding it was written in.
Bytes(val, enc) == [kind |-> "json", val |-> val, enc |-> enc]

\* The zero value of data.SignedRoot that json.Unmarshal leaves behind when
\* it fails on b: no keys, a nil Roles map.
ZeroRoot(b) == SignedRoot("", 0, {}, <<>>, {})

\* json.Unmarshal into a typed struct: Nil stands for the error.
Unmarshal(b, kind) ==
    IF b.kind = "json" /\ b.val.kind = kind THEN b.val ELSE Nil

\* json.Marshal: always the one encoding the encoder emits.
Marshal(val) == Bytes(val, 0)

\* len(b) of a byte slice: it grows with the content and with the encoding.
ByteLen(b) == IF b.kind = "json" THEN b.val.Version + b.enc + 1 ELSE 1

\* utils.DoHash(alg, d): the digest of d, nil for an unknown algorithm.
DoHash(alg, d) ==
    IF alg \in {"sha256", "sha512"}
      THEN [kind |-> "digest", alg |-> alg, of |-> d]
      ELSE Nil

\* data.NewFileMeta(r, "sha256")
NewFileMeta(b) ==
    FileMeta(ByteLen(b), [alg \in {"sha256"} |-> DoHash(alg, b)])

\* data.NewPublicKey(algo, keyBytes).ID(): the key is its id; ("", nil) is 0.
EmptyKeyID == 0
PublicKeyID(algo, keyBytes) == IF algo = "" THEN EmptyKeyID ELSE keyBytes

\* ----------------------------------------------------------- the store
\* store.GetKey(gun, role): ("", nil, ErrNoKey) when no key is stored.
GetKey(st, role) ==
    LET k == IF role = timestampRole THEN st.tsKey ELSE st.snapKey
    IN  IF k = EmptyKeyID
          THEN [algo |-> "", keyBytes |-> EmptyKeyID, err |-> TRUE]
          ELSE [algo |-> "ecdsa", keyBytes |-> k, err |-> FALSE]

\* store.GetCurrent(gun, role): Nil (with ErrNotFound) when nothing is stored.
GetCurrent(st, role) ==
    CASE role = rootRole -> st.root
      [] role = targetsRole -> st.targets
      [] role = snapshotRole -> st.snapshot
      [] OTHER -> Nil

\* ------------------------------------------------------------- verifier
\* signed.VerifyRoot(s, threshold, keys): at least threshold distinct keys
\* of the given key map have a valid signature on s.
VerifyRoot(s, threshold, keys) == Cardinality(s.sigs \cap keys) >= threshold

\* data.ValidTUFType(type, role)
ValidTUFType(type, role) ==
    \/ role = rootRole /\ type = "Root"
    \/ role = targetsRole /\ type = "Targets"
    \/ role = snapshotRole /\ type = "Snapshot"
    \/ role = timestampRole /\ type = "Timestamp"

\* ------------------------------------------------------------ checkRoot
\* The keys of a root's root role that the root's own key map contains.
rootRoleKeys(root) ==
    {kid \in Range(root.Roles[rootRole].KeyIDs) : kid \in root.Keys}

\* The rotation flag checkRoot computes (validation.go:354-396).
rotationDetected(oldRoot, newRoot) ==
    /\ oldRoot # Nil
    /\ \/ Cardinality(rootRoleKeys(oldRoot)) # Len(newRoot.Roles[rootRole].KeyIDs)
       \/ \E kid \in rootRoleKeys(newRoot) : kid \notin rootRoleKeys(oldRoot)

\* roleError without the rule that the timestamp threshold is exactly 1.
roleErrorAnyTimestampThreshold(root, r) ==
    IF r \notin DOMAIN root.Roles THEN "missing required role"
    ELSE LET role == root.Roles[r]
         IN  IF role.Threshold < 1
               THEN "role has invalid threshold"
             ELSE IF Len(role.KeyIDs) < role.Threshold
               THEN "role has insufficient number of keys"
             ELSE ""

\* The check of one required role (validation.go:420-433); "" when it passes.
roleError(root, r) ==
    IF r \notin DOMAIN root.Roles THEN "missing required role"
    ELSE LET role == root.Roles[r]
         IN  IF (r = timestampRole /\ role.Threshold # 1) \/ role.Threshold < 1
               THEN "role has invalid threshold"
             ELSE IF Len(role.KeyIDs) < role.Threshold
               THEN "role has insufficient number of keys"
             ELSE ""

\* The first failing role in the order root, targets, snapshot, timestamp.
firstRoleError(root) ==
    LET bad == {i \in 1..4 : roleError(root, CanonicalRoles[i]) # ""}
    IN  IF bad = {} THEN ""
        ELSE roleError(root, CanonicalRoles[
                 CHOOSE i \in bad : \A j \in bad : i <= j])

\* A nil pointer dereference: the goroutine panics and nothing is returned.
Panic == "panic: nil pointer dereference"

\* checkRoot that verifies the new root against its own keys only when no
\* rotation was detected.
checkRootOwnKeysUnlessRotation(oldRoot, newRoot, timestampKeyID) ==
    IF rootRole \notin DOMAIN newRoot.Roles
      THEN "new root is missing role entry for root role"
    ELSE IF oldRoot # Nil /\ rootRole \notin DOMAIN oldRoot.Roles
      THEN Panic
    ELSE IF /\ rotationDetected(oldRoot, newRoot)
            /\ ~VerifyRoot(newRoot, oldRoot.Roles[rootRole].Threshold,
                           rootRoleKeys(oldRoot))
      THEN "rotation detected and new root was not signed with old keys"
    ELSE IF /\ ~rotationDetected(oldRoot, newRoot)
            /\ ~VerifyRoot(newRoot, newRoot.Roles[rootRole].Threshold,
                           rootRoleKeys(newRoot))
      THEN "valid signatures did not meet threshold"
    ELSE IF firstRoleError(newRoot) # ""
      THEN firstRoleError(newRoot)
    ELSE IF timestampKeyID \in Range(newRoot.Roles[timestampRole].KeyIDs)
      THEN ""
    ELSE "none of the following timestamp keys exist"

\* checkRoot(oldRoot, newRoot, timestampKey): the error, "" for nil.
\* oldRoot.Signed.Roles[rootRole] of an old root without a root role is a
\* nil pointer, and reading its Threshold panics (validation.go:360-361).
checkRoot(oldRoot, newRoot, timestampKeyID) ==
    IF rootRole \notin DOMAIN newRoot.Roles
      THEN "new root is missing role entry for root role"
    ELSE IF oldRoot # Nil /\ rootRole \notin DOMAIN oldRoot.Roles
      THEN Panic
    ELSE IF /\ rotationDetected(oldRoot, newRoot)
            /\ ~VerifyRoot(newRoot, oldRoot.Roles[rootRole].Threshold,
                           rootRoleKeys(oldRoot))
      THEN "rotation detected and new root was not signed with old keys"
    ELSE IF ~VerifyRoot(newRoot, newRoot.Roles[rootRole].Threshold,
                        rootRoleKeys(newRoot))
      THEN "valid signatures did not meet threshold"
    ELSE IF firstRoleError(newRoot) # ""
      THEN firstRoleError(newRoot)
    ELSE IF timestampKeyID \in Range(newRoot.Roles[timestampRole].KeyIDs)
      THEN ""
    ELSE "none of the following timestamp keys exist"

\* validateRoot that goes on without a stored timestamp key.
validateRootWithoutKeyGuard(oldRoot, newRoot, st) ==
    LET parsedOldRoot ==
            IF oldRoot = Nil THEN Nil
            ELSE IF Unmarshal(oldRoot, "root") = Nil THEN ZeroRoot(oldRoot)
            ELSE Unmarshal(oldRoot, "root")
        parsedNewRoot == Unmarshal(newRoot, "root")
        k == GetKey(st, timestampRole)
        timestampKey == PublicKeyID(k.algo, k.keyBytes)
    IN  IF parsedNewRoot = Nil
          THEN [root |-> Nil, err |-> "could not parse root"]
        ELSE IF checkRoot(parsedOldRoot, parsedNewRoot, timestampKey) # ""
          THEN [root |-> Nil,
                err |-> checkRoot(parsedOldRoot, parsedNewRoot, timestampKey)]
        ELSE IF ~ValidTUFType(parsedNewRoot.Type, rootRole)
          THEN [root |-> Nil, err |-> "root has wrong type"]
        ELSE [root |-> parsedNewRoot, err |-> ""]

\* validateRoot(gun, oldRoot, newRoot, store): the parsed root and the error.
validateRoot(oldRoot, newRoot, st) ==
    LET parsedOldRoot ==
            IF oldRoot = Nil THEN Nil
            ELSE IF Unmarshal(oldRoot, "root") = Nil THEN ZeroRoot(oldRoot)
            ELSE Unmarshal(oldRoot, "root")
        parsedNewRoot == Unmarshal(newRoot, "root")
        k == GetKey(st, timestampRole)
        timestampKey == PublicKeyID(k.algo, k.keyBytes)
    IN  IF parsedNewRoot = Nil
          THEN [root |-> Nil, err |-> "could not parse root"]
        ELSE IF k.err \/ k.algo = "" \/ k.keyBytes = EmptyKeyID
          THEN [root |-> Nil, err |-> "no timestamp key"]
        ELSE IF checkRoot(parsedOldRoot, parsedNewRoot, timestampKey) # ""
          THEN [root |-> Nil,
                err |-> checkRoot(parsedOldRoot, parsedNewRoot, timestampKey)]
        ELSE IF ~ValidTUFType(parsedNewRoot.Type, rootRole)
          THEN [root |-> Nil, err |-> "root has wrong type"]
        ELSE [root |-> parsedNewRoot, err |-> ""]

\* ------------------------------------------------------- validateUpdate
ErrBadRoot == "ErrBadRoot"
ErrValidation == "ErrValidation"
ErrBadTargets == "ErrBadTargets"
ErrBadSnapshot == "ErrBadSnapshot"
ErrBadHierarchy == "ErrBadHierarchy"
ErrLoadRepo == "could not load repo for snapshot generation"
ErrPrevSnapshot == "could not retrieve previous snapshot"
ErrSignSnapshot == "could not sign snapshot"

\* roles[v.Role] = v for every update in order: the last update of a role wins.
rolesOf(updates) ==
    [r \in {updates[i].Role : i \in DOMAIN updates} |->
        updates[CHOOSE i \in DOMAIN updates :
                    /\ updates[i].Role = r
                    /\ \A j \in DOMAIN updates : updates[j].Role = r => j <= i]]

\* The key database after repo.SetRoot(root): the root's keys and roles.
KeyDB(root) == [keys |-> root.Keys, roles |-> root.Roles]

\* repo.SetRoot(root) fails when a role cannot be added to the key database:
\* a threshold below 1, or a key id that is not among the root's keys.
SetRootFails(root) ==
    \E r \in DOMAIN root.Roles :
        \/ root.Roles[r].Threshold < 1
        \/ \E kid \in Range(root.Roles[r].KeyIDs) : kid \notin root.Keys

\* signed.Verify(s, role, 0, kdb): type, expiry, and a threshold of distinct
\* valid signatures from the keys the key database lists for the role.
Verify(s, role, kdb) ==
    /\ role \in DOMAIN kdb.roles
    /\ ValidTUFType(s.Type, role)
    /\ ~s.Expired
    /\ Cardinality(s.sigs \cap Range(kdb.roles[role].KeyIDs) \cap kdb.keys)
          >= kdb.roles[role].Threshold

\* effectiveRoot that keeps the key database of the stored root whenever one
\* is stored, also when the update brings a root.
effectiveRootPreferStored(roles, st) ==
    LET oldRootJSON == GetCurrent(st, rootRole)
    IN  IF rootRole \in DOMAIN roles
          THEN LET v == validateRoot(oldRootJSON, roles[rootRole].Data, st)
               IN  IF v.err = Panic THEN [root |-> Nil, err |-> Panic]
                   ELSE IF v.err # "" THEN [root |-> Nil, err |-> ErrBadRoot]
                   ELSE IF SetRootFails(v.root)
                     THEN [root |-> Nil, err |-> ErrValidation]
                   ELSE IF oldRootJSON # Nil
                     THEN [root |-> Unmarshal(oldRootJSON, "root"), err |-> ""]
                   ELSE [root |-> v.root, err |-> ""]
        ELSE IF oldRootJSON = Nil
          THEN [root |-> Nil, err |-> ErrValidation]
        ELSE IF Unmarshal(oldRootJSON, "root") = Nil
          THEN [root |-> Nil, err |-> ErrValidation]
        ELSE IF SetRootFails(Unmarshal(oldRootJSON, "root"))
          THEN [root |-> Nil, err |-> ErrValidation]
        ELSE [root |-> Unmarshal(oldRootJSON, "root"), err |-> ""]

\* validateUpdate, the root step (validation.go:39-73): the root the key
\* database is loaded from, and the error.
effectiveRoot(roles, st) ==
    LET oldRootJSON == GetCurrent(st, rootRole)
    IN  IF rootRole \in DOMAIN roles
          THEN LET v == validateRoot(oldRootJSON, roles[rootRole].Data, st)
               IN  IF v.err = Panic THEN [root |-> Nil, err |-> Panic]
                   ELSE IF v.err # "" THEN [root |-> Nil, err |-> ErrBadRoot]
                   ELSE IF SetRootFails(v.root)
                     THEN [root |-> Nil, err |-> ErrValidation]
                   ELSE [root |-> v.root, err |-> ""]
        ELSE IF oldRootJSON = Nil
          THEN [root |-> Nil, err |-> ErrValidation]
        ELSE IF Unmarshal(oldRootJSON, "root") = Nil
          THEN [root |-> Nil, err |-> ErrValidation]
        ELSE IF SetRootFails(Unmarshal(oldRootJSON, "root"))
          THEN [root |-> Nil, err |-> ErrValidation]
        ELSE [root |-> Unmarshal(oldRootJSON, "root"), err |-> ""]

\* validateTargets(role, roles, kdb): the parsed targets and whether it failed.
validateTargets(role, roles, kdb) ==
    LET s == Unmarshal(roles[role].Data, "targets")
    IN  IF s = Nil THEN [t |-> Nil, err |-> TRUE]
        ELSE IF ~Verify(s, role, kdb) THEN [t |-> Nil, err |-> TRUE]
        ELSE IF ~ValidTUFType(s.Type, targetsRole) THEN [t |-> Nil, err |-> TRUE]
        ELSE [t |-> s, err |-> FALSE]

\* checkHashes(meta, update): every listed hash equals the hash of the bytes.
checkHashes(meta, update) ==
    \A alg \in DOMAIN meta.Hashes : meta.Hashes[alg] = DoHash(alg, update)

\* checkSnapshotEntries without the comparison of lengths.
checkSnapshotEntriesWithoutLength(oldSnap, snap, roles) ==
    \A r \in DOMAIN roles \ {snapshotRole, timestampRole} :
        /\ r \in DOMAIN snap.Meta
        /\ checkHashes(snap.Meta[r], roles[r].Data)

\* checkSnapshotEntries(role, oldSnap, snap, roles): TRUE when it returns nil.
\* Only the roles of the update are visited; oldSnap is not read.
checkSnapshotEntries(oldSnap, snap, roles) ==
    \A r \in DOMAIN roles \ {snapshotRole, timestampRole} :
        /\ r \in DOMAIN snap.Meta
        /\ ByteLen(roles[r].Data) = snap.Meta[r].Length
        /\ checkHashes(snap.Meta[r], roles[r].Data)

\* validateSnapshot(role, oldSnap, snapUpdate, roles, kdb): TRUE when nil.
validateSnapshot(role, oldSnap, snapUpdate, roles, kdb) ==
    LET s == Unmarshal(snapUpdate.Data, "snapshot")
    IN  /\ s # Nil
        /\ Verify(s, role, kdb)
        /\ ValidTUFType(s.Type, snapshotRole)
        /\ checkSnapshotEntries(oldSnap, s, roles)

\* prepRepo(gun, repo, store): the stored targets are loaded when the update
\* brought none; repo.Root is never nil here.
prepRepo(repo, st) ==
    IF repo.Targets # Nil THEN [repo |-> repo, err |-> ""]
    ELSE IF GetCurrent(st, targetsRole) = Nil
      THEN [repo |-> repo, err |-> ErrLoadRepo]
    ELSE IF Unmarshal(GetCurrent(st, targetsRole), "targets") = Nil
      THEN [repo |-> repo, err |-> ErrLoadRepo]
    ELSE [repo |-> [repo EXCEPT !.Targets =
                        Unmarshal(GetCurrent(st, targetsRole), "targets")],
          err |-> ""]

\* The private keys the signer holds: for the server's signer those of the
\* keys it created, for a client's CryptoService those on its disk.
SignerKeys(st) ==
    IF "keys" \in DOMAIN st THEN st.keys ELSE {st.tsKey, st.snapKey} \ {EmptyKeyID}

\* NotarySigner.Sign(keyIDs, toSign): one signature per key id, or an error
\* as soon as the signer fails for one of them.  {} stands for the error.
Sign(keyIDs, st) ==
    IF Range(keyIDs) \subseteq SignerKeys(st) THEN Range(keyIDs) ELSE {}

\* Repo.sign(signed, role): signs with the role's keys the key database has;
\* ErrInvalidKey when it has none.  {} stands for an error.
sign(role, kdb, st) ==
    LET ks == SelectSeq(role.KeyIDs, LAMBDA kid : kid \in kdb.keys)
    IN  IF Len(ks) < 1 THEN {} ELSE Sign(ks, st)

\* repo.InitSnapshot(): a fresh snapshot of the repo's root and targets.
InitSnapshot(repo) ==
    SignedSnapshot("Snapshot", 0, FALSE,
        [r \in {rootRole, targetsRole} |->
            NewFileMeta(Marshal(IF r = rootRole THEN repo.Root ELSE repo.Targets))],
        {})

\* repo.SignSnapshot(expires): the meta entries of the root and of the targets
\* the repo has loaded are recomputed from their serialization, the version is bumped, the expiry
\* renewed, and the snapshot role's keys sign.  Nil stands for an error.
SignSnapshot(repo, kdb, st) ==
    LET sigs == sign(kdb.roles[snapshotRole], kdb, st)
        loadedRoles == {rootRole} \cup {r \in {targetsRole} : repo.Targets # Nil}
        meta == [r \in DOMAIN repo.Snapshot.Meta \cup loadedRoles |->
                    IF r = rootRole THEN NewFileMeta(Marshal(repo.Root))
                    ELSE IF r = targetsRole /\ repo.Targets # Nil
                      THEN NewFileMeta(Marshal(repo.Targets))
                    ELSE repo.Snapshot.Meta[r]]
    IN  IF sigs = {} THEN Nil
        ELSE SignedSnapshot(repo.Snapshot.Type, repo.Snapshot.Version + 1, FALSE,
                            meta, sigs)

\* generateSnapshot(gun, kdb, repo, store): the snapshot update and the error.
generateSnapshot(kdb, repo, st) ==
    LET k == GetKey(st, snapshotRole)
        foundK == PublicKeyID(k.algo, k.keyBytes)
        currentJSON == GetCurrent(st, snapshotRole)
        loaded == IF currentJSON # Nil
                    THEN [repo EXCEPT !.Snapshot = Unmarshal(currentJSON, "snapshot")]
                    ELSE [repo EXCEPT !.Snapshot = InitSnapshot(repo)]
        sgnd == SignSnapshot(loaded, kdb, st)
    IN  IF snapshotRole \notin DOMAIN kdb.roles
          THEN [update |-> Nil, err |-> ErrBadRoot]
        ELSE IF foundK \notin Range(kdb.roles[snapshotRole].KeyIDs)
          THEN [update |-> Nil, err |-> ErrBadHierarchy]
        ELSE IF currentJSON # Nil /\ Unmarshal(currentJSON, "snapshot") = Nil
          THEN [update |-> Nil, err |-> ErrPrevSnapshot]
        ELSE IF sgnd = Nil
          THEN [update |-> Nil, err |-> ErrSignSnapshot]
        ELSE [update |-> MetaUpdate(snapshotRole, sgnd.Version, Marshal(sgnd)),
              err |-> ""]

\* A return of validateUpdate: the update list (<<>> is nil), the error, and
\* the store as the call leaves it.
Return(updates, err, st) == [updates |-> updates, err |-> err, store |-> st]

\* validateUpdate that saves a validated root before the later steps run and
\* hands the update list back when the snapshot fallback fails.
validateUpdateKeepingRoot(updates, st) ==
    LET roles == rolesOf(updates)
        eff == effectiveRoot(roles, st)
        kdb == KeyDB(eff.root)
        vt == validateTargets(targetsRole, roles, kdb)
        oldSnap == IF GetCurrent(st, snapshotRole) = Nil THEN Nil
                   ELSE Unmarshal(GetCurrent(st, snapshotRole), "snapshot")
        repo == [Root |-> eff.root,
                 Targets |-> IF targetsRole \in DOMAIN roles THEN vt.t ELSE Nil,
                 Snapshot |-> Nil]
        prep == prepRepo(repo, st)
        gen == generateSnapshot(kdb, prep.repo, st)
        stWithRoot == IF rootRole \in DOMAIN roles
                        THEN [st EXCEPT !.root = roles[rootRole].Data]
                        ELSE st
    IN  IF eff.err # "" THEN Return(<<>>, eff.err, st)
        ELSE IF targetsRole \in DOMAIN roles /\ vt.err
          THEN Return(<<>>, ErrBadTargets, stWithRoot)
        ELSE IF snapshotRole \in DOMAIN roles
          THEN IF validateSnapshot(snapshotRole, oldSnap, roles[snapshotRole],
                                   roles, kdb)
                 THEN Return(updates, "", st)
                 ELSE Return(<<>>, ErrBadSnapshot, stWithRoot)
        ELSE IF prep.err # "" THEN Return(updates, prep.err, stWithRoot)
        ELSE IF gen.err # "" THEN Return(updates, gen.err, stWithRoot)
        ELSE Return(Append(updates, gen.update), "", st)

\* validateUpdate that generates the snapshot but forgets to append it to
\* the updates it returns.
validateUpdateWithoutGeneratedSnapshot(updates, st) ==
    LET roles == rolesOf(updates)
        eff == effectiveRoot(roles, st)
        kdb == KeyDB(eff.root)
        vt == validateTargets(targetsRole, roles, kdb)
        oldSnap == IF GetCurrent(st, snapshotRole) = Nil THEN Nil
                   ELSE Unmarshal(GetCurrent(st, snapshotRole), "snapshot")
        repo == [Root |-> eff.root,
                 Targets |-> IF targetsRole \in DOMAIN roles THEN vt.t ELSE Nil,
                 Snapshot |-> Nil]
        prep == prepRepo(repo, st)
        gen == generateSnapshot(kdb, prep.repo, st)
    IN  IF eff.err # "" THEN Return(<<>>, eff.err, st)
        ELSE IF targetsRole \in DOMAIN roles /\ vt.err
          THEN Return(<<>>, ErrBadTargets, st)
        ELSE IF snapshotRole \in DOMAIN roles
          THEN IF validateSnapshot(snapshotRole, oldSnap, roles[snapshotRole],
                                   roles, kdb)
                 THEN Return(updates, "", st)
                 ELSE Return(<<>>, ErrBadSnapshot, st)
        ELSE IF prep.err # "" THEN Return(<<>>, prep.err, st)
        ELSE IF gen.err # "" THEN Return(<<>>, gen.err, st)
        ELSE Return(updates, "", st)

\* validateUpdate(cs, gun, updates, store), step by step: the root, the
\* targets, then the snapshot of the update or the one the server generates.
validateUpdate(updates, st) ==
    LET roles == rolesOf(updates)
        oldSnap == IF GetCurrent(st, snapshotRole) = Nil THEN Nil
                   ELSE Unmarshal(GetCurrent(st, snapshotRole), "snapshot")
        Generated(gen) ==
            IF gen.err # "" THEN Return(<<>>, gen.err, st)
            ELSE Return(Append(updates, gen.update), "", st)
        Prepared(kdb, prep) ==
            IF prep.err # "" THEN Return(<<>>, prep.err, st)
            ELSE Generated(generateSnapshot(kdb, prep.repo, st))
        SnapshotStep(kdb, repo) ==
            IF snapshotRole \in DOMAIN roles
              THEN IF validateSnapshot(snapshotRole, oldSnap, roles[snapshotRole],
                                       roles, kdb)
                     THEN Return(updates, "", st)
                     ELSE Return(<<>>, ErrBadSnapshot, st)
            ELSE Prepared(kdb, prepRepo(repo, st))
        TargetsStep(root, kdb, vt) ==
            IF targetsRole \in DOMAIN roles /\ vt.err
              THEN Return(<<>>, ErrBadTargets, st)
            ELSE SnapshotStep(kdb,
                     [Root |-> root,
                      Targets |-> IF targetsRole \in DOMAIN roles THEN vt.t ELSE Nil,
                      Snapshot |-> Nil])
        RootStep(eff) ==
            IF eff.err # "" THEN Return(<<>>, eff.err, st)
            ELSE TargetsStep(eff.root, KeyDB(eff.root),
                             validateTargets(targetsRole, roles, KeyDB(eff.root)))
    IN  RootStep(effectiveRoot(roles, st))

\* --------------------------------------------------------------- inputs
\* The ids of the keys the server creates for the GUN.
ServerTimestampKey == NumKeys + 1
ServerSnapshotKey == NumKeys + 2

\* Every key a root of these inputs may carry in its key map; 0 is the key of
\* unknown type with empty content.
AllKeys == 0..(NumKeys + 2)

\* The roles of a root: the timestamp role is the server's key, threshold 1.
RolesOf(rr, tr, sr) ==
    [r \in {rootRole, targetsRole, snapshotRole, timestampRole} |->
        CASE r = rootRole -> rr
          [] r = targetsRole -> tr
          [] r = snapshotRole -> sr
          [] OTHER -> RootRole(<<ServerTimestampKey>>, 1)]

\* Key 2 signs targets, the server signs snapshots.
StdRoles(rr) == RolesOf(rr, RootRole(<<2>>, 1), RootRole(<<ServerSnapshotKey>>, 1))

AnyRootRole ==
    {RootRole(ks, t) : ks \in SeqsOf(KeyIDs, 0, MaxKeyIDs), t \in 0..MaxThreshold}

\* Role entries that may also name the server's keys or the empty key.
AnyOtherRole ==
    {RootRole(ks, t) :
        ks \in SeqsOf({EmptyKeyID, 1, ServerTimestampKey}, 0, MaxKeyIDs),
        t \in 0..MaxThreshold}

Without(f, r) == [x \in DOMAIN f \ {r} |-> f[x]]

\* A proposed root that varies the root role, the key map and the signatures.
RootByRootRole(rr, keys, sigs) == SignedRoot("Root", 1, keys, StdRoles(rr), sigs)

\* A proposed root, properly signed by key 1, with its own role r replaced.
RootByOtherRole(r, v) ==
    SignedRoot("Root", 1, {1}, [StdRoles(RootRole(<<1>>, 1)) EXCEPT ![r] = v], {1})

\* A proposed root, properly signed by key 1, without an entry for role r.
RootWithoutRole(r) ==
    SignedRoot("Root", 1, {1}, Without(StdRoles(RootRole(<<1>>, 1)), r), {1})

\* A proposed root, properly signed by key 1, of the given TUF type.
RootOfType(type) == SignedRoot(type, 1, {1}, StdRoles(RootRole(<<1>>, 1)), {1})

\* A stored root: root key ids 1..n, threshold t, and in its key map either
\* all of them or all but the last (when the rest can still meet t).
OldRoot(n, t, m) ==
    SignedRoot("Root", 1, 1..m, StdRoles(RootRole([i \in 1..n |-> i], t)), {})

OldRootBytes ==
    {Marshal(OldRoot(n, t, m)) : n \in 1..MaxKeyIDs, t \in 1..MaxThreshold,
                                m \in 1..MaxKeyIDs}

ValidOldRootBytes ==
    {b \in OldRootBytes :
        LET n == Len(b.val.Roles[rootRole].KeyIDs)
            m == Cardinality(b.val.Keys)
        IN  m \in {n - 1, n} /\ m >= b.val.Roles[rootRole].Threshold}

EmptyStore ==
    [root |-> Nil, targets |-> Nil, snapshot |-> Nil,
     tsKey |-> EmptyKeyID, snapKey |-> EmptyKeyID]

NoCall == [op |-> "none"]

\* ------------------------------------------- root validation on its own
InitRoot ==
    /\ \E old \in ValidOldRootBytes \cup {Nil, Corrupt},
          ts \in {EmptyKeyID, 1, ServerTimestampKey} :
              store = [EmptyStore EXCEPT !.root = old, !.tsKey = ts]
    /\ call = NoCall

\* One call of validateRoot with the stored root as the old root.
ValidateRoot(newRoot) ==
    /\ call' = [op |-> "validateRoot", newRoot |-> newRoot,
                err |-> validateRoot(store.root, newRoot, store).err]
    /\ UNCHANGED store

\* The proposed roots, each validated once against the initial store.
SubmitRoot ==
    \/ \E rr \in AnyRootRole, sigs \in SUBSET KeyIDs :
          \E keys \in SUBSET Range(rr.KeyIDs) :
             ValidateRoot(Marshal(RootByRootRole(rr, keys, sigs)))
    \/ \E r \in {targetsRole, snapshotRole, timestampRole}, v \in AnyOtherRole :
          ValidateRoot(Marshal(RootByOtherRole(r, v)))
    \/ \E r \in Range(CanonicalRoles) : ValidateRoot(Marshal(RootWithoutRole(r)))
    \/ \E type \in {"Targets", "Snapshot"} : ValidateRoot(Marshal(RootOfType(type)))
    \/ ValidateRoot(Corrupt)

NextRoot == call = NoCall /\ SubmitRoot

SpecRoot == InitRoot /\ [][NextRoot]_vars

\* --------------------------------------------- validateUpdate as a whole
MaxEnc == 1
Encodings == 0..MaxEnc

\* The publisher's keys: key 1 signs roots, keys 2..t+1 sign targets under a
\* threshold t, and key NumKeys signs the snapshots a publisher makes itself.
TargetsKeys(t) == [i \in 1..t |-> i + 1]
PublisherSnapshotKey == NumKeys

\* A root signed by key 1 (or by nobody) whose targets role has threshold t
\* and whose snapshot role has the single key k.
RootOf(version, t, k, sigs, keys) ==
    SignedRoot("Root", version, keys,
               RolesOf(RootRole(<<1>>, 1), RootRole(TargetsKeys(t), t),
                       RootRole(<<k>>, 1)),
               sigs)

\* The bytes kept for a role, by the kind of content: nothing, bytes that do
\* not parse, or the given value in the given encoding.
Content(kind, val, enc) ==
    CASE kind = "nil" -> Nil
      [] kind = "corrupt" -> Corrupt
      [] OTHER -> Bytes(val, enc)

\* The snapshot meta entry of a role whose bytes are b, right or wrong.
MetaEntry(opt, b) ==
    CASE opt = "match" -> NewFileMeta(b)
      [] opt = "badlen" ->
            FileMeta(ByteLen(b) + 1, [alg \in {"sha256"} |-> DoHash(alg, b)])
      [] opt = "badhash" ->
            FileMeta(ByteLen(b), [alg \in {"sha256"} |-> DoHash(alg, Corrupt)])
      [] opt = "bad512" ->
            FileMeta(ByteLen(b),
                     [alg \in {"sha256", "sha512"} |->
                         IF alg = "sha256" THEN DoHash(alg, b)
                                           ELSE DoHash(alg, Corrupt)])
      [] opt = "nohash" -> FileMeta(ByteLen(b), [alg \in {} |-> Nil])
      [] OTHER -> FileMeta(ByteLen(b) + 1, [alg \in {} |-> Nil])

MetaOptions == {"absent", "match", "badlen", "badhash", "bad512", "nohash",
                "nohashbadlen"}

\* The meta map of a snapshot over the root bytes rb and the targets bytes tb
\* (Nil: there are none), with the entry of each made as its option says.
MetaOf(rb, ropt, tb, topt) ==
    [r \in {x \in {rootRole} : rb # Nil /\ ropt # "absent"} \cup
           {x \in {targetsRole} : tb # Nil /\ topt # "absent"} |->
        IF r = rootRole THEN MetaEntry(ropt, rb) ELSE MetaEntry(topt, tb)]

\* The snapshot a publisher submits, by its shape.
SnapshotInput(shape, meta) ==
    CASE shape = "corrupt" -> Corrupt
      [] shape = "unsigned" ->
            Bytes(SignedSnapshot("Snapshot", 2, FALSE, meta, {}), 0)
      [] shape = "wrongtype" ->
            Bytes(SignedSnapshot("Targets", 2, FALSE, meta, {PublisherSnapshotKey}), 0)
      [] shape = "expired" ->
            Bytes(SignedSnapshot("Snapshot", 2, TRUE, meta, {PublisherSnapshotKey}), 0)
      [] OTHER ->
            Bytes(SignedSnapshot("Snapshot", 2, FALSE, meta, {PublisherSnapshotKey}), 0)

\* The targets a publisher submits, by their shape.
TargetsInput(shape, sigs, enc) ==
    CASE shape = "none" -> Nil
      [] shape = "corrupt" -> Corrupt
      [] shape = "wrongtype" -> Bytes(SignedTargets("Snapshot", 2, FALSE, sigs), enc)
      [] shape = "expired" -> Bytes(SignedTargets("Targets", 2, TRUE, sigs), enc)
      [] OTHER -> Bytes(SignedTargets("Targets", 2, FALSE, sigs), enc)

\* The root a publisher submits, by its shape.
RootInput(shape, t, k, sigs, enc) ==
    CASE shape = "none" -> Nil
      [] shape = "corrupt" -> Corrupt
      [] OTHER -> Bytes(RootOf(2, t, k, sigs, AllKeys), enc)

\* The update list of a request: at most one update per role, Nil for none.
UpdateList(r, t, s, ts) ==
    (IF r = Nil THEN <<>> ELSE <<MetaUpdate(rootRole, 2, r)>>)
    \o (IF t = Nil THEN <<>> ELSE <<MetaUpdate(targetsRole, 2, t)>>)
    \o (IF s = Nil THEN <<>> ELSE <<MetaUpdate(snapshotRole, 2, s)>>)
    \o (IF ts = Nil THEN <<>> ELSE <<MetaUpdate(timestampRole, 2, ts)>>)

\* The bytes a stored snapshot was computed over: the bytes of the role when
\* the publisher made the snapshot, their re-serialization when the server
\* generated it with its own key.
SnapshotSource(b, k) ==
    IF k = ServerSnapshotKey /\ b.kind = "json" THEN Marshal(b.val) ELSE b

\* What the store holds for the GUN: a root of version 1 published earlier
\* (with the timestamp key the server made for it), the targets signed under
\* it, and the snapshot that covers both, or bytes that have been damaged.
StoreOf(rootKind, t, k, enc, targetsKind, snapshotKind, tsKey, snapKey) ==
    LET rb == Content(rootKind, RootOf(1, t, k, {1}, AllKeys), enc)
        tb == Content(targetsKind,
                      SignedTargets("Targets", 1, FALSE, Range(TargetsKeys(t))), enc)
        sb == Content(snapshotKind,
                      SignedSnapshot("Snapshot", 1, FALSE,
                                     MetaOf(SnapshotSource(rb, k), "match",
                                            SnapshotSource(tb, k), "match"),
                                     {k}), 0)
    IN  [root |-> rb, targets |-> tb, snapshot |-> sb,
         tsKey |-> tsKey, snapKey |-> snapKey]

ContentKinds == {"nil", "corrupt", "json"}
SnapshotKeyChoices == {PublisherSnapshotKey, ServerSnapshotKey, EmptyKeyID}

Init ==
    /\ \E rootKind \in ContentKinds, t \in 1..MaxThreshold,
          k \in {PublisherSnapshotKey, ServerSnapshotKey}, enc \in Encodings,
          targetsKind \in ContentKinds, snapshotKind \in ContentKinds,
          tsKey \in {EmptyKeyID, ServerTimestampKey},
          snapKey \in {EmptyKeyID, ServerSnapshotKey} :
            /\ rootKind # "json" =>
                  /\ t = 1 /\ k = PublisherSnapshotKey /\ enc = 0
                  /\ targetsKind = "nil"
            /\ rootKind # "nil" => tsKey = ServerTimestampKey
            /\ k = ServerSnapshotKey => snapKey = ServerSnapshotKey
            /\ targetsKind # "json" => snapshotKind = "nil"
            /\ store = StoreOf(rootKind, t, k, enc, targetsKind, snapshotKind,
                               tsKey, snapKey)
    /\ call = NoCall

\* One call of validateUpdate on the store.
ValidateUpdate(updates) ==
    \E res \in {validateUpdate(updates, store)} :
        /\ call' = [op |-> "validateUpdate", updates |-> updates,
                    out |-> res.updates, err |-> res.err]
        /\ store' = res.store

\* An update without a snapshot: the server is to generate one.  A root
\* without signature comes in one form, and so do targets of the wrong type
\* and expired targets, which carry every signature.
SubmitWithoutSnapshot ==
    \E rshape \in {"none", "corrupt", "json"}, t \in 1..MaxThreshold,
       k \in SnapshotKeyChoices, rsigs \in {{}, {1}}, renc \in Encodings,
       tshape \in {"none", "corrupt", "wrongtype", "expired", "json"},
       tsigs \in SUBSET (2..(MaxThreshold + 1)), tenc \in Encodings :
          /\ (rshape # "json" \/ rsigs = {}) =>
                (t = 1 /\ k = PublisherSnapshotKey /\ renc = 0)
          /\ rshape # "json" => rsigs = {}
          /\ tshape \in {"none", "corrupt"} => (tsigs = {} /\ tenc = 0)
          /\ tshape \in {"wrongtype", "expired"} =>
                (tsigs = 2..(MaxThreshold + 1) /\ tenc = 0)
          /\ ValidateUpdate(UpdateList(RootInput(rshape, t, k, rsigs, renc),
                                       TargetsInput(tshape, tsigs, tenc),
                                       Nil, Nil))

\* An update with a snapshot made by the publisher, over the bytes of the
\* update where it has them and over the stored bytes otherwise; one of the
\* two meta entries is varied in a well-formed snapshot, and a timestamp
\* comes along with a snapshot whose entries match.
SubmitWithSnapshot ==
    \E rshape \in {"none", "json"}, renc \in Encodings,
       tshape \in {"none", "json"}, tenc \in Encodings,
       withTimestamp \in BOOLEAN,
       shape \in {"corrupt", "unsigned", "wrongtype", "expired", "json"},
       varied \in {rootRole, targetsRole}, opt \in MetaOptions :
          /\ rshape = "none" => renc = 0
          /\ tshape = "none" => tenc = 0
          /\ shape # "json" => (varied = rootRole /\ opt = "match")
          /\ withTimestamp => (shape = "json" /\ opt = "match")
          /\ LET r == RootInput(rshape, 1, PublisherSnapshotKey, {1}, renc)
                 t == TargetsInput(tshape, {2}, tenc)
                 rb == IF r # Nil THEN r ELSE store.root
                 tb == IF t # Nil THEN t ELSE store.targets
                 meta == MetaOf(rb, IF varied = rootRole THEN opt ELSE "match",
                                tb, IF varied = targetsRole THEN opt ELSE "match")
             IN  ValidateUpdate(UpdateList(r, t, SnapshotInput(shape, meta),
                                           IF withTimestamp THEN Corrupt ELSE Nil))

\* An update whose root is well signed but does not carry the keys of all of
\* its roles in its key map.
SubmitRootWithMissingKeys ==
    \E keys \in {{1}, {1, 2}}, withTargets \in BOOLEAN :
        ValidateUpdate(UpdateList(
            Bytes(RootOf(2, 1, ServerSnapshotKey, {1}, keys), 0),
            IF withTargets THEN TargetsInput("json", {2}, 0) ELSE Nil,
            Nil, Nil))

Next ==
    /\ call = NoCall
    /\ \/ SubmitWithoutSnapshot
       \/ SubmitWithSnapshot
       \/ SubmitRootWithMissingKeys

Spec == Init /\ [][Next]_vars

\* ------------------------------------- two updates racing for one GUN
\* The update handler of the server: validateUpdate on what the store holds
\* when the request is looked at, then store.UpdateMany of the updates that
\* validateUpdate returned.  Requests of different publishers run in parallel
\* and may interleave between the two steps.
NumPublishers == 2
Publishers == 1..NumPublishers

ErrConflict == "Conflict"

\* The version of what is stored for a role; 0 when nothing is stored.
StoredVersion(st, role) ==
    IF GetCurrent(st, role).kind = "json" THEN GetCurrent(st, role).val.Version
    ELSE 0

\* Whether every update is the successor of what is stored for its role.
VersionsFollow(st, updates) ==
    \A i \in DOMAIN updates :
        updates[i].Version = StoredVersion(st, updates[i].Role) + 1

RECURSIVE WriteAll(_, _)
WriteAll(st, updates) ==
    IF updates = <<>> THEN st
    ELSE WriteAll([st EXCEPT ![Head(updates).Role] = Head(updates).Data],
                  Tail(updates))

\* store.UpdateMany(gun, updates): all of the updates or none of them.
UpdateMany(st, updates) ==
    IF VersionsFollow(st, updates)
      THEN [store |-> WriteAll(st, updates), err |-> ""]
      ELSE [store |-> st, err |-> ErrConflict]

\* A request built on the stored state st (all of it at version 1): a new
\* root, new targets, and a snapshot of the publisher's over both, each
\* present or not, all at version 2.
RaceRequest(st, withRoot, withTargets, withSnapshot, enc) ==
    LET r == IF withRoot
               THEN Bytes([st.root.val EXCEPT !.Version = 2], enc) ELSE Nil
        t == IF withTargets
               THEN Bytes([st.targets.val EXCEPT !.Version = 2], enc) ELSE Nil
        meta == MetaOf(IF r # Nil THEN r ELSE st.root, "match",
                       IF t # Nil THEN t ELSE st.targets, "match")
    IN  UpdateList(r, t,
                   IF withSnapshot THEN SnapshotInput("json", meta) ELSE Nil,
                   Nil)

InitRace ==
    /\ \E k \in {PublisherSnapshotKey, ServerSnapshotKey},
          snapKey \in {EmptyKeyID, ServerSnapshotKey} :
            /\ k = ServerSnapshotKey => snapKey = ServerSnapshotKey
            /\ store = StoreOf("json", 1, k, 0, "json", "json",
                               ServerTimestampKey, snapKey)
    /\ call = [op |-> "race",
               base |-> store,
               pc |-> [p \in Publishers |-> "received"],
               seen |-> [p \in Publishers |-> Nil],
               out |-> [p \in Publishers |-> <<>>],
               err |-> [p \in Publishers |-> ""]]

\* The handler validates the request of publisher p.
RaceValidate(p) ==
    /\ call.pc[p] = "received"
    /\ \E withRoot \in BOOLEAN, withTargets \in BOOLEAN,
          withSnapshot \in BOOLEAN, enc \in Encodings :
            /\ withRoot \/ withTargets \/ withSnapshot
            /\ ~(withRoot \/ withTargets) => enc = 0
            /\ \E res \in {validateUpdate(
                                RaceRequest(call.base, withRoot, withTargets,
                                            withSnapshot, enc), store)} :
                   /\ call' = [call EXCEPT
                                 !.pc[p] = IF res.err = "" THEN "validated"
                                           ELSE "done",
                                 !.seen[p] = store,
                                 !.out[p] = res.updates,
                                 !.err[p] = res.err]
                   /\ store' = res.store

\* The handler persists the validated updates of publisher p.
RacePersist(p) ==
    /\ call.pc[p] = "validated"
    /\ LET res == UpdateMany(store, call.out[p])
       IN  /\ store' = res.store
           /\ call' = [call EXCEPT !.pc[p] = "done", !.err[p] = res.err]

NextRace == \E p \in Publishers : RaceValidate(p) \/ RacePersist(p)

SpecRace == InitRace /\ [][NextRace]_vars

\* ------------------------------------------------ GetOrCreateSnapshotKey
\* GetOrCreateSnapshotKey(gun, store, crypto, algorithm), called by several
\* requests at a time: store.GetKey; on ErrNoKey crypto.Create and
\* store.SetKey; on ErrKeyExists from SetKey, store.GetKey once more.
NumCallers == 2
MaxCalls == 2
Callers == 1..NumCallers

\* The keys crypto.Create hands out: a new one with every call.
FirstCreatedKey == NumKeys + 3

ErrKeyExists == "ErrKeyExists"

\* store.SetKey(gun, role, algorithm, public): an insert that fails with
\* ErrKeyExists when the GUN already has a key for the role.
SetKey(st, role, key) ==
    IF GetKey(st, role).err
      THEN [store |-> [st EXCEPT !.snapKey = key], err |-> ""]
      ELSE [store |-> st, err |-> ErrKeyExists]

InitKey ==
    /\ \E k \in {EmptyKeyID, ServerSnapshotKey} :
          store = [EmptyStore EXCEPT !.snapKey = k]
    /\ call = [op |-> "key",
               pc |-> [p \in Callers |-> "idle"],
               calls |-> [p \in Callers |-> 0],
               created |-> [p \in Callers |-> EmptyKeyID],
               path |-> [p \in Callers |-> "none"],
               ret |-> [p \in Callers |-> EmptyKeyID],
               nextKey |-> FirstCreatedKey,
               returned |-> {}]

\* A request calls GetOrCreateSnapshotKey.
KeyCall(p) ==
    /\ call.pc[p] = "idle" /\ call.calls[p] < MaxCalls
    /\ call' = [call EXCEPT !.pc[p] = "get", !.calls[p] = @ + 1,
                            !.created[p] = EmptyKeyID, !.path[p] = "none",
                            !.ret[p] = EmptyKeyID]
    /\ UNCHANGED store

\* The call returns key k to caller p on the given path.
KeyReturn(p, k, path) ==
    call' = [call EXCEPT !.pc[p] = "idle", !.ret[p] = k, !.path[p] = path,
                         !.returned = @ \cup {k}]

\* store.GetKey: the stored key is returned, or the caller goes on to create.
KeyGet(p) ==
    /\ call.pc[p] = "get"
    /\ LET k == GetKey(store, snapshotRole)
       IN  IF ~k.err THEN KeyReturn(p, PublicKeyID(k.algo, k.keyBytes), "stored")
           ELSE call' = [call EXCEPT !.pc[p] = "create"]
    /\ UNCHANGED store

\* crypto.Create: a new key.
KeyCreate(p) ==
    /\ call.pc[p] = "create"
    /\ call' = [call EXCEPT !.pc[p] = "set", !.created[p] = call.nextKey,
                            !.nextKey = @ + 1]
    /\ UNCHANGED store

\* store.SetKey: the created key is stored and returned, or it exists.
KeySet(p) ==
    /\ call.pc[p] = "set"
    /\ LET res == SetKey(store, snapshotRole, call.created[p])
       IN  /\ store' = res.store
           /\ IF res.err = "" THEN KeyReturn(p, call.created[p], "created")
              ELSE call' = [call EXCEPT !.pc[p] = "reget"]

\* After ErrKeyExists the caller returns the key it created itself.
KeyReGetReturningOwn(p) ==
    /\ call.pc[p] = "reget"
    /\ KeyReturn(p, call.created[p], "exists")
    /\ UNCHANGED store

\* store.GetKey after ErrKeyExists: the key stored by now is returned.
KeyReGet(p) ==
    /\ call.pc[p] = "reget"
    /\ LET k == GetKey(store, snapshotRole)
       IN  KeyReturn(p, PublicKeyID(k.algo, k.keyBytes), "exists")
    /\ UNCHANGED store

NextKey ==
    \E p \in Callers :
        KeyCall(p) \/ KeyGet(p) \/ KeyCreate(p) \/ KeySet(p) \/ KeyReGet(p)

SpecKey == InitKey /\ [][NextKey]_vars

\* ------------------------------------------------- GetOrCreateSnapshot
ErrNotFound == "ErrNotFound"
ErrSyntax == "json.SyntaxError"
ErrNoKeys == "signed.ErrNoKeys"

\* The stored bytes with the expiry of their content in the past.
Expire(b) ==
    IF b.kind = "json" THEN Bytes([b.val EXCEPT !.Expired = TRUE], b.enc) ELSE b

\* snapshotExpired(sn)
snapshotExpired(sn) == sn.Expired

\* The signer handed to GetOrCreateSnapshot: the one that holds the keys the
\* server created, or a fresh one that holds none.
CryptoService(st, holdsKeys) ==
    IF holdsKeys THEN st ELSE [st EXCEPT !.tsKey = EmptyKeyID, !.snapKey = EmptyKeyID]

\* createSnapshot(gun, prev, store, cryptoService): the stored root is
\* loaded into a fresh repo and the previous snapshot is signed anew.
createSnapshot(prev, st, crypto) ==
    LET rootJSON == GetCurrent(st, rootRole)
        root == Unmarshal(rootJSON, "root")
        repo == [Root |-> root, Targets |-> Nil, Snapshot |-> prev]
        sgnd == IF root = Nil \/ SetRootFails(root) THEN Nil
                ELSE SignSnapshot(repo, KeyDB(root), crypto)
    IN  IF rootJSON = Nil THEN [data |-> Nil, err |-> ErrNotFound]
        ELSE IF root = Nil THEN [data |-> Nil, err |-> ErrSyntax]
        ELSE IF SetRootFails(root) THEN [data |-> Nil, err |-> ErrBadRoot]
        ELSE IF sgnd = Nil THEN [data |-> Nil, err |-> ErrNoKeys]
        ELSE [data |-> Marshal(sgnd), err |-> ""]

\* GetOrCreateSnapshot that hands out the stored snapshot whatever its expiry.
GetOrCreateSnapshotIgnoringExpiry(st, crypto) ==
    LET d == GetCurrent(st, snapshotRole)
    IN  IF d = Nil THEN [data |-> Nil, err |-> ErrNotFound]
        ELSE IF Unmarshal(d, "snapshot") = Nil THEN [data |-> Nil, err |-> ErrSyntax]
        ELSE [data |-> d, err |-> ""]

\* GetOrCreateSnapshot(gun, store, cryptoService): the snapshot bytes and the
\* error.  An unexpired stored snapshot is returned as it is stored.
GetOrCreateSnapshot(st, crypto) ==
    LET d == GetCurrent(st, snapshotRole)
        sn == Unmarshal(d, "snapshot")
    IN  IF d = Nil THEN [data |-> Nil, err |-> ErrNotFound]
        ELSE IF sn = Nil THEN [data |-> Nil, err |-> ErrSyntax]
        ELSE IF ~snapshotExpired(sn) THEN [data |-> d, err |-> ""]
        ELSE createSnapshot(sn, st, crypto)

\* The stores of a GUN, with the stored snapshot expired or not.
InitSnapshotStore ==
    /\ \E rootKind \in ContentKinds, targetsKind \in ContentKinds,
          snapshotKind \in ContentKinds, t \in 1..MaxThreshold,
          k \in {PublisherSnapshotKey, ServerSnapshotKey},
          enc \in Encodings, expired \in BOOLEAN :
          LET st == StoreOf(rootKind, t, k, enc, targetsKind, snapshotKind,
                            ServerTimestampKey, ServerSnapshotKey)
          IN  store = IF expired
                        THEN [st EXCEPT !.snapshot = Expire(st.snapshot)]
                        ELSE st
    /\ call = NoCall

\* One request for the snapshot of the GUN; a regenerated snapshot is stored.
GetSnapshot ==
    /\ call = NoCall
    /\ \E holdsKeys \in BOOLEAN :
          LET res == GetOrCreateSnapshot(store, CryptoService(store, holdsKeys))
          IN  /\ call' = [op |-> "GetOrCreateSnapshot", before |-> store,
                          holdsKeys |-> holdsKeys, data |-> res.data,
                          err |-> res.err]
              /\ store' = IF res.err = "" /\ res.data # store.snapshot
                            THEN [store EXCEPT !.snapshot = res.data]
                            ELSE store

NextSnapshot == GetSnapshot

SpecSnapshot == InitSnapshotStore /\ [][NextSnapshot]_vars

\* ------------------------------------------------------------ the client
ErrMetaNotFound == "store.ErrMetaNotFound"
ErrServerUnavailable == "store.ErrServerUnavailable"
ErrInvalidOperation == "store.ErrInvalidOperation"
ErrBadURL == "invalid remote store URL"
ErrRepoNotInitialized == "ErrRepoNotInitialized"
ErrExpired == "ErrExpired"
ErrUntrustedRoot == "certs.ErrValidationFail"
ErrUpdate == "tufclient: update failed"
ErrChangelist == "changelist: cannot open"
ErrNoTrustData == "No trust data"

MaxChanges == 2
TargetNames == {"v1", "v2"}

\* data.SignedRoot as the client reads it: the expiry is far away, within
\* six months ("near") or in the past.
ClientRoot(version, expires, sigs) ==
    [kind |-> "root", Type |-> "Root", Version |-> version, Keys |-> AllKeys,
     Roles |-> RolesOf(RootRole(<<1>>, 1), RootRole(TargetsKeys(1), 1),
                       RootRole(<<PublisherSnapshotKey>>, 1)),
     sigs |-> sigs, Expires |-> expires]

\* data.SignedTargets with its Signed.Targets, the names it lists.
ClientTargets(version, expired, files, sigs) ==
    [kind |-> "targets", Type |-> "Targets", Version |-> version,
     Expired |-> expired, sigs |-> sigs, Targets |-> files]

\* The private keys of the publisher: root, targets and snapshot.
ClientKeys == {1} \cup Range(TargetsKeys(1)) \cup {PublisherSnapshotKey}

\* r.CryptoService: the private keys it can sign with.
ClientCrypto(held) == [keys |-> held]

\* The metadata of a collection: signed by the publisher's keys, with the
\* snapshot covering the root and the targets.
MetadataOf(rootExpires, trusted, expiredRole, files) ==
    LET rb == Marshal(ClientRoot(1, rootExpires, IF trusted THEN {1} ELSE {}))
        tb == Marshal(ClientTargets(1, expiredRole = targetsRole, files,
                                    Range(TargetsKeys(1))))
    IN  [root |-> rb, targets |-> tb,
         snapshot |-> Marshal(SignedSnapshot("Snapshot", 1,
                                  expiredRole = snapshotRole,
                                  MetaOf(rb, "match", tb, "match"),
                                  {PublisherSnapshotKey}))]

NoMetadata == [root |-> Nil, targets |-> Nil, snapshot |-> Nil]

\* changelist.NewTufChange(action, changelist.ScopeTargets, "target", path,
\* content): AddTarget gives the serialized FileMeta as content, RemoveTarget
\* gives nil.  valid: the targets role may sign for the path.
TufChange(action, path, content, valid) ==
    [Action |-> action, Scope |-> "targets", Path |-> path,
     Content |-> content, valid |-> valid]

Changes ==
    {TufChange("create", p, "FileMeta", TRUE) : p \in TargetNames}
    \cup {TufChange("create", "v2", "FileMeta", FALSE),
          TufChange("delete", "v1", "", TRUE)}

\* getRemoteStore and HTTPStore.GetMeta(name, size) with
\* translateStatusToError: 404 is ErrMetaNotFound.
RemoteGetMeta(st, net, name) ==
    IF net = "badurl" THEN [data |-> Nil, err |-> ErrBadURL]
    ELSE IF net = "down" THEN [data |-> Nil, err |-> ErrServerUnavailable]
    ELSE IF st.remote[name] = Nil THEN [data |-> Nil, err |-> ErrMetaNotFound]
    ELSE [data |-> st.remote[name], err |-> ""]

\* r.fileStore.GetMeta(name, size)
FileGetMeta(st, name) ==
    IF st.cache[name] = Nil THEN [data |-> Nil, err |-> ErrMetaNotFound]
    ELSE [data |-> st.cache[name], err |-> ""]

\* r.CertManager.ValidateRoot(root, gun): the root is signed by the pinned key.
CertValidateRoot(root) == 1 \in root.sigs

\* tuf.NewRepo(kdb, r.CryptoService) after SetRoot(root).
NewRepo(root) ==
    [Root |-> root, Targets |-> Nil, Snapshot |-> Nil, RootDirty |-> FALSE]

NoRepo == [Root |-> Nil, Targets |-> Nil, Snapshot |-> Nil, RootDirty |-> FALSE]

\* bootstrapClient with a cache fallback on every failure to fetch the root.
bootstrapClientFallingBackOn404(st, net) ==
    LET got == RemoteGetMeta(st, net, rootRole)
        cached == FileGetMeta(st, rootRole)
        rootJSON == IF got.err = "" THEN got.data ELSE cached.data
        root == Unmarshal(rootJSON, "root")
    IN  IF got.err # "" /\ cached.err # ""
          THEN [repo |-> NoRepo, err |-> got.err, cached |-> FALSE]
        ELSE IF root = Nil
          THEN [repo |-> NoRepo, err |-> ErrSyntax, cached |-> got.err # ""]
        ELSE IF ~CertValidateRoot(root)
          THEN [repo |-> NoRepo, err |-> ErrUntrustedRoot, cached |-> got.err # ""]
        ELSE IF SetRootFails(root)
          THEN [repo |-> NoRepo, err |-> ErrBadRoot, cached |-> got.err # ""]
        ELSE [repo |-> NewRepo(root), err |-> "", cached |-> got.err # ""]

\* r.bootstrapClient(): the root comes from the remote, or from the cache
\* when the remote fails with anything but ErrMetaNotFound.  cached: the
\* root of the cache was used.
bootstrapClient(st, net) ==
    LET got == RemoteGetMeta(st, net, rootRole)
        cached == FileGetMeta(st, rootRole)
        rootJSON == IF got.err = "" THEN got.data ELSE cached.data
        root == Unmarshal(rootJSON, "root")
    IN  IF got.err = ErrMetaNotFound
          THEN [repo |-> NoRepo, err |-> got.err, cached |-> FALSE]
        ELSE IF got.err # "" /\ cached.err # ""
          THEN [repo |-> NoRepo, err |-> got.err, cached |-> FALSE]
        ELSE IF root = Nil
          THEN [repo |-> NoRepo, err |-> ErrSyntax, cached |-> got.err # ""]
        ELSE IF ~CertValidateRoot(root)
          THEN [repo |-> NoRepo, err |-> ErrUntrustedRoot, cached |-> got.err # ""]
        ELSE IF SetRootFails(root)
          THEN [repo |-> NoRepo, err |-> ErrBadRoot, cached |-> got.err # ""]
        ELSE [repo |-> NewRepo(root), err |-> "", cached |-> got.err # ""]

\* r.bootstrapRepo(): root, targets and snapshot are read from the file store.
bootstrapRepo(st) ==
    LET root == Unmarshal(st.cache.root, "root")
        targets == Unmarshal(st.cache.targets, "targets")
        snapshot == Unmarshal(st.cache.snapshot, "snapshot")
    IN  IF st.cache.root = Nil THEN [repo |-> NoRepo, err |-> ErrMetaNotFound]
        ELSE IF root = Nil THEN [repo |-> NoRepo, err |-> ErrSyntax]
        ELSE IF SetRootFails(root) THEN [repo |-> NoRepo, err |-> ErrBadRoot]
        ELSE IF st.cache.targets = Nil THEN [repo |-> NoRepo, err |-> ErrMetaNotFound]
        ELSE IF targets = Nil THEN [repo |-> NoRepo, err |-> ErrSyntax]
        ELSE IF st.cache.snapshot = Nil THEN [repo |-> NoRepo, err |-> ErrMetaNotFound]
        ELSE IF snapshot = Nil THEN [repo |-> NoRepo, err |-> ErrSyntax]
        ELSE [repo |-> [Root |-> root, Targets |-> targets,
                        Snapshot |-> snapshot, RootDirty |-> FALSE],
              err |-> ""]

\* c.Update(): targets and snapshot are fetched (from the cache when the
\* remote cannot be reached) and verified under the root; expired metadata
\* is signed.ErrExpired.  What was fetched is kept in the cache.
Update(repo, st, net) ==
    LET source == IF net = "up" THEN st.remote ELSE st.cache
        targets == Unmarshal(source.targets, "targets")
        snapshot == Unmarshal(source.snapshot, "snapshot")
    IN  IF repo.Root.Expires = "past"
          THEN [repo |-> repo, err |-> ErrExpired, cache |-> st.cache]
        ELSE IF targets = Nil \/ snapshot = Nil
          THEN [repo |-> repo, err |-> ErrUpdate, cache |-> st.cache]
        ELSE IF targets.Expired \/ snapshot.Expired
          THEN [repo |-> repo, err |-> ErrExpired, cache |-> st.cache]
        ELSE [repo |-> [repo EXCEPT !.Targets = targets, !.Snapshot = snapshot],
              err |-> "",
              cache |-> [root |-> Marshal(repo.Root), targets |-> source.targets,
                         snapshot |-> source.snapshot]]

\* repo.AddTargets("targets", files): a path the role may not sign for is
\* left out and reported.
AddTargets(repo, path, valid) ==
    IF valid
      THEN [repo |-> [repo EXCEPT !.Targets.Targets = @ \cup {path}], err |-> ""]
      ELSE [repo |-> repo, err |-> "Could not add all targets"]

\* repo.RemoveTargets("targets", path)
RemoveTargets(repo, path) ==
    [repo |-> [repo EXCEPT !.Targets.Targets = @ \ {path}], err |-> ""]

\* applyTargetsChange(repo, c): a content that does not parse as a FileMeta
\* (that of a delete is nil) ends it without an error.
applyTargetsChange(repo, c) ==
    IF c.Content # "FileMeta" THEN [repo |-> repo, err |-> ""]
    ELSE IF c.Action = "create" THEN AddTargets(repo, c.Path, c.valid)
    ELSE IF c.Action = "delete" THEN RemoveTargets(repo, c.Path)
    ELSE [repo |-> repo, err |-> ""]

\* applyChangelist(repo, cl): the changes are applied in order; the error of
\* applyTargetsChange is not assigned, so err stays nil to the end.
RECURSIVE applyChangelist(_, _)
applyChangelist(repo, changes) ==
    IF changes = <<>> THEN [repo |-> repo, err |-> ""]
    ELSE applyChangelist(
             IF Head(changes).Scope = "targets"
               THEN applyTargetsChange(repo, Head(changes)).repo
               ELSE repo,
             Tail(changes))

\* A root counts as near its expiry only once it has expired.
nearExpiryOnceExpired(root) == root.Expires = "past"

\* Every root counts as near its expiry.
nearExpiryAlways(root) == TRUE

\* nearExpiry(r): the root expires before six months from now.
nearExpiry(root) == root.Expires # "far"

\* repo.SignRoot(expires) and repo.SignTargets("targets", expires): the
\* version is bumped, the expiry renewed, and the role's keys sign.  Nil
\* stands for an error.
SignRoot(repo, kdb, crypto) ==
    LET sigs == sign(kdb.roles[rootRole], kdb, crypto)
    IN  IF sigs = {} THEN Nil
        ELSE [repo.Root EXCEPT !.Version = @ + 1, !.Expires = "far", !.sigs = sigs]

SignTargets(repo, kdb, crypto) ==
    LET sigs == sign(kdb.roles[targetsRole], kdb, crypto)
    IN  IF sigs = {} THEN Nil
        ELSE [repo.Targets EXCEPT !.Version = @ + 1, !.Expired = FALSE, !.sigs = sigs]

\* What an operation of the client leaves behind: its error, the updates it
\* sent with SetMultiMeta, the steps it took in order, and the remote, the
\* cache and the changelist after it.
Outcome(st, err, uploads, steps, cache) ==
    [err |-> err, uploads |-> uploads, steps |-> steps, remote |-> st.remote,
     cache |-> cache, changelist |-> st.changelist]

\* remote.SetMultiMeta(update): one POST of all the roles; the server takes
\* all of them or none.  A server that holds no root takes no update that
\* brings none.
SetMultiMeta(st, update, fault) ==
    IF fault = "upload" \/ (rootRole \notin DOMAIN update /\ st.remote.root = Nil)
      THEN [remote |-> st.remote, err |-> ErrInvalidOperation]
      ELSE [remote |-> [r \in DOMAIN st.remote |->
                           IF r \in DOMAIN update THEN update[r] ELSE st.remote[r]],
            err |-> ""]

\* Publish that signs the snapshot before the targets it covers.
PublishLoadedSnapshotFirst(repo, updateRoot, st, env, steps, cache) ==
    LET a == applyChangelist([repo EXCEPT !.RootDirty = env.rootDirty], st.changelist)
        kdb == KeyDB(repo.Root)
        crypto == ClientCrypto(env.held)
        resign == nearExpiry(a.repo.Root) \/ a.repo.RootDirty
        root == IF resign THEN SignRoot(a.repo, kdb, crypto) ELSE a.repo.Root
        snapshot == SignSnapshot([a.repo EXCEPT !.Root = root], kdb, crypto)
        targets == SignTargets([a.repo EXCEPT !.Root = root], kdb, crypto)
        update == [r \in {x \in {rootRole} : updateRoot \/ resign}
                         \cup {targetsRole, snapshotRole} |->
                      Marshal(CASE r = rootRole -> root
                                [] r = targetsRole -> targets
                                [] OTHER -> snapshot)]
        sent == SetMultiMeta(st, update, env.fault)
        sGet == steps \o <<"GetChangelist">>
        sApply == sGet \o <<"applyChangelist">>
        sRoot == IF resign THEN sApply \o <<"SignRoot">> ELSE sApply
        sSnapshot == sRoot \o <<"SignSnapshot">>
        sTargets == sSnapshot \o <<"SignTargets">>
        sRemote == sTargets \o <<"getRemoteStore">>
        sSend == sRemote \o <<"Marshal", "SetMultiMeta">>
    IN  IF env.fault = "changelist" THEN Outcome(st, ErrChangelist, <<>>, sGet, cache)
        ELSE IF resign /\ root = Nil THEN Outcome(st, ErrNoKeys, <<>>, sRoot, cache)
        ELSE IF snapshot = Nil THEN Outcome(st, ErrNoKeys, <<>>, sSnapshot, cache)
        ELSE IF targets = Nil THEN Outcome(st, ErrNoKeys, <<>>, sTargets, cache)
        ELSE IF env.net = "badurl" THEN Outcome(st, ErrBadURL, <<>>, sRemote, cache)
        ELSE IF sent.err # "" THEN Outcome(st, sent.err, <<update>>, sSend, cache)
        ELSE [err |-> "", uploads |-> <<update>>, steps |-> sSend \o <<"Clear">>,
              remote |-> sent.remote, cache |-> cache,
              changelist |-> IF env.fault = "clear" THEN st.changelist ELSE <<>>]

\* Publish from r.GetChangelist() on: the changes are applied, the root is
\* signed when it is dirty or near its expiry, targets and snapshot are
\* always signed, all of them are sent in one update, and the changelist is
\* cleared; a failure to clear it is only logged.
PublishLoaded(repo, updateRoot, st, env, steps, cache) ==
    LET a == applyChangelist([repo EXCEPT !.RootDirty = env.rootDirty], st.changelist)
        kdb == KeyDB(repo.Root)
        crypto == ClientCrypto(env.held)
        resign == nearExpiry(a.repo.Root) \/ a.repo.RootDirty
        root == IF resign THEN SignRoot(a.repo, kdb, crypto) ELSE a.repo.Root
        targets == SignTargets([a.repo EXCEPT !.Root = root], kdb, crypto)
        snapshot == SignSnapshot([a.repo EXCEPT !.Root = root, !.Targets = targets],
                                 kdb, crypto)
        update == [r \in {x \in {rootRole} : updateRoot \/ resign}
                         \cup {targetsRole, snapshotRole} |->
                      Marshal(CASE r = rootRole -> root
                                [] r = targetsRole -> targets
                                [] OTHER -> snapshot)]
        sent == SetMultiMeta(st, update, env.fault)
        sGet == steps \o <<"GetChangelist">>
        sApply == sGet \o <<"applyChangelist">>
        sRoot == IF resign THEN sApply \o <<"SignRoot">> ELSE sApply
        sTargets == sRoot \o <<"SignTargets">>
        sSnapshot == sTargets \o <<"SignSnapshot">>
        sRemote == sSnapshot \o <<"getRemoteStore">>
        sSend == sRemote \o <<"Marshal", "SetMultiMeta">>
    IN  IF env.fault = "changelist" THEN Outcome(st, ErrChangelist, <<>>, sGet, cache)
        ELSE IF a.err # "" THEN Outcome(st, a.err, <<>>, sApply, cache)
        ELSE IF resign /\ root = Nil THEN Outcome(st, ErrNoKeys, <<>>, sRoot, cache)
        ELSE IF targets = Nil THEN Outcome(st, ErrNoKeys, <<>>, sTargets, cache)
        ELSE IF snapshot = Nil THEN Outcome(st, ErrNoKeys, <<>>, sSnapshot, cache)
        ELSE IF env.net = "badurl" THEN Outcome(st, ErrBadURL, <<>>, sRemote, cache)
        ELSE IF sent.err # "" THEN Outcome(st, sent.err, <<update>>, sSend, cache)
        ELSE [err |-> "", uploads |-> <<update>>, steps |-> sSend \o <<"Clear">>,
              remote |-> sent.remote, cache |-> cache,
              changelist |-> IF env.fault = "clear" THEN st.changelist ELSE <<>>]

\* Publish that goes on with the repo on disk whatever bootstrapClient fails with.
PublishOpAnyErrorFirst(st, env) ==
    LET b == bootstrapClient(st, env.net)
        local == bootstrapRepo(st)
        u == Update(b.repo, st, env.net)
    IN  IF b.err # ""
          THEN IF local.err # ""
                 THEN Outcome(st, ErrRepoNotInitialized, <<>>,
                              <<"bootstrapClient", "bootstrapRepo">>, st.cache)
                 ELSE PublishLoaded(local.repo, TRUE, st, env,
                                    <<"bootstrapClient", "bootstrapRepo">>, st.cache)
        ELSE IF u.err # ""
          THEN Outcome(st, u.err, <<>>, <<"bootstrapClient", "Update">>, st.cache)
        ELSE PublishLoaded(u.repo, FALSE, st, env,
                           <<"bootstrapClient", "Update">>, u.cache)

\* r.Publish(): ErrMetaNotFound from bootstrapClient makes it a first
\* publish from the repo on disk; any other error ends it.
PublishOp(st, env) ==
    LET b == bootstrapClient(st, env.net)
        local == bootstrapRepo(st)
        u == Update(b.repo, st, env.net)
    IN  IF b.err = ErrMetaNotFound
          THEN IF local.err # ""
                 THEN Outcome(st, ErrRepoNotInitialized, <<>>,
                              <<"bootstrapClient", "bootstrapRepo">>, st.cache)
                 ELSE PublishLoaded(local.repo, TRUE, st, env,
                                    <<"bootstrapClient", "bootstrapRepo">>, st.cache)
        ELSE IF b.err # ""
          THEN Outcome(st, b.err, <<>>, <<"bootstrapClient">>, st.cache)
        ELSE IF u.err # ""
          THEN Outcome(st, u.err, <<>>, <<"bootstrapClient", "Update">>, st.cache)
        ELSE PublishLoaded(u.repo, FALSE, st, env,
                           <<"bootstrapClient", "Update">>, u.cache)

\* ListTargets that lists the cached targets when the update fails.
ListTargetsOpFromCache(st, net) ==
    LET b == bootstrapClient(st, net)
        u == Update(b.repo, st, net)
        cached == Unmarshal(st.cache.targets, "targets")
    IN  IF b.err # "" THEN [targets |-> {}, err |-> b.err, cache |-> st.cache]
        ELSE IF u.err # "" /\ cached # Nil
          THEN [targets |-> cached.Targets, err |-> u.err, cache |-> st.cache]
        ELSE IF u.err # "" THEN [targets |-> {}, err |-> u.err, cache |-> st.cache]
        ELSE [targets |-> u.repo.Targets.Targets, err |-> "", cache |-> u.cache]

\* r.ListTargets(): the names the targets role lists, Nil with an error.
ListTargetsOp(st, net) ==
    LET b == bootstrapClient(st, net)
        u == Update(b.repo, st, net)
    IN  IF b.err # "" THEN [targets |-> {}, err |-> b.err, cache |-> st.cache]
        ELSE IF u.err # "" THEN [targets |-> {}, err |-> u.err, cache |-> st.cache]
        ELSE [targets |-> u.repo.Targets.Targets, err |-> "", cache |-> u.cache]

\* r.GetTargetByName(name): the target of that name, Nil with an error.
GetTargetByNameOp(st, net, name) ==
    LET b == bootstrapClient(st, net)
        u == Update(b.repo, st, net)
    IN  IF b.err # "" THEN [targets |-> {}, err |-> b.err, cache |-> st.cache]
        ELSE IF u.err # "" THEN [targets |-> {}, err |-> u.err, cache |-> st.cache]
        ELSE IF name \notin u.repo.Targets.Targets
          THEN [targets |-> {}, err |-> ErrNoTrustData, cache |-> u.cache]
        ELSE [targets |-> {name}, err |-> "", cache |-> u.cache]

\* The repositories a client meets: a remote that does not know the
\* collection or serves it (trusted or not, near its expiry or expired), a
\* cache that is empty, initialized, partial or damaged, and staged changes.
RemoteStates ==
    {NoMetadata, MetadataOf("far", FALSE, "none", {})}
    \cup {MetadataOf(e, TRUE, "none", f) : e \in {"far", "near", "past"},
                                           f \in {{}, {"v1"}}}
    \cup {MetadataOf("far", TRUE, r, f) : r \in {targetsRole, snapshotRole},
                                          f \in {{}, {"v1"}}}

CacheStates ==
    {NoMetadata, MetadataOf("far", TRUE, "none", {"v1"}),
     [MetadataOf("far", TRUE, "none", {"v1"}) EXCEPT !.targets = Nil,
                                                     !.snapshot = Nil],
     [MetadataOf("far", TRUE, "none", {"v1"}) EXCEPT !.targets = Corrupt]}

InitClient ==
    /\ \E remote \in RemoteStates, cache \in CacheStates,
          changelist \in SeqsOf(Changes, 0, MaxChanges) :
          store = [remote |-> remote, cache |-> cache, changelist |-> changelist]
    /\ call = NoCall

\* What the environment does during one operation: the network, the private
\* keys at hand, the root made dirty, and at most one other fault.
NetStates == {"up", "down", "badurl"}
HeldKeys == {ClientKeys} \cup {ClientKeys \ {k} : k \in ClientKeys}
Faults == {"none", "changelist", "upload", "clear"}

\* What r.bootstrapClient() returned to the operation that called it.
Booted(st, net) ==
    [err |-> bootstrapClient(st, net).err, cached |-> bootstrapClient(st, net).cached]

Publish ==
    /\ call = NoCall
    /\ \E net \in NetStates, held \in HeldKeys, rootDirty \in BOOLEAN,
          fault \in Faults :
          LET env == [net |-> net, held |-> held, rootDirty |-> rootDirty,
                      fault |-> fault]
          IN  \E out \in {PublishOp(store, env)} :
                 /\ call' = [op |-> "Publish", before |-> store, env |-> env,
                             net |-> net, boot |-> Booted(store, net),
                             err |-> out.err, uploads |-> out.uploads,
                             steps |-> out.steps]
                 /\ store' = [remote |-> out.remote, cache |-> out.cache,
                              changelist |-> out.changelist]

ListTargets ==
    /\ call = NoCall
    /\ \E net \in NetStates :
          \E out \in {ListTargetsOp(store, net)} :
              /\ call' = [op |-> "ListTargets", before |-> store, net |-> net,
                          boot |-> Booted(store, net), err |-> out.err, targets |-> out.targets]
              /\ store' = [store EXCEPT !.cache = out.cache]

GetTargetByName ==
    /\ call = NoCall
    /\ \E net \in NetStates, name \in TargetNames :
          \E out \in {GetTargetByNameOp(store, net, name)} :
              /\ call' = [op |-> "GetTargetByName", before |-> store, net |-> net,
                          boot |-> Booted(store, net),
                          name |-> name, err |-> out.err, targets |-> out.targets]
              /\ store' = [store EXCEPT !.cache = out.cache]

NextClient == Publish \/ ListTargets \/ GetTargetByName

SpecClient == InitClient /\ [][NextClient]_vars

\* --------------------------------- the command line client's validateRoot
\* The entry of the root's key map under the literal id "kid".
LiteralKid == NumKeys + 4

\* What a public key of the root holds: a certificate of the certificate
\* store with the GUN as CommonName or with another one, a certificate that
\* chains to a CA of the CA store for the GUN, a certificate neither store
\* knows, or PEM data that is no certificate.
CertKinds == {"pinned", "pinnedOtherCN", "ca", "untrusted", "notcert"}

\* certificateStore.GetCertificateBykID(leafID) finds the leaf and its
\* CommonName is the GUN.
PinnedFor(cert) == cert = "pinned"

\* trustmanager.Verify(caStore, gun, certList)
ChainsToCA(cert) == cert = "ca"

\* The ids of a root role in increasing order.
RECURSIVE SortedSeq(_)
SortedSeq(S) ==
    IF S = {} THEN <<>>
    ELSE LET m == CHOOSE x \in S : \A y \in S : x <= y
         IN  <<m>> \o SortedSeq(S \ {m})

\* The root handed to validateRoot: Signed.Keys (key id to certificate),
\* Signed.Roles["root"] and the key ids with a valid signature on it.
CertRoot(keys, keyIDs, threshold, sigs) ==
    [kind |-> "root", Type |-> "Root", Version |-> 1, Keys |-> keys,
     Roles |-> [r \in {rootRole} |-> RootRole(keyIDs, threshold)], sigs |-> sigs]

\* The loop of validateRoot: for every id of the root role the certificate
\* is read from Keys["kid"]; when it is in the certificate store with the
\* GUN as CommonName, or chains to a CA, the id enters certs.
TrustedCerts(root) ==
    {kID \in Range(root.Roles[rootRole].KeyIDs) :
        /\ root.Keys[LiteralKid] # "notcert"
        /\ PinnedFor(root.Keys[LiteralKid]) \/ ChainsToCA(root.Keys[LiteralKid])}

\* validateRoot(gun, root) of cmd/notary: pem.Decode of the missing
\* Keys["kid"] gives a nil block, whose Bytes are then read: a panic.  The
\* signatures are verified against certs with a threshold of 1.
cliValidateRoot(rootJSON) ==
    LET root == Unmarshal(rootJSON, "root")
    IN  IF root = Nil THEN [err |-> ErrSyntax, certs |-> {}]
        ELSE IF root.Roles[rootRole].KeyIDs # <<>> /\ LiteralKid \notin DOMAIN root.Keys
          THEN [err |-> "panic", certs |-> {}]
        ELSE IF ~VerifyRoot(root, 1, TrustedCerts(root))
          THEN [err |-> ErrValidation, certs |-> TrustedCerts(root)]
        ELSE [err |-> "", certs |-> TrustedCerts(root)]

\* bootstrapClient(gun, remote, repo, kdb) of cmd/notary: the root is
\* fetched, validated and set as the root of the repo.
cliBootstrapClient(rootJSON) ==
    LET v == cliValidateRoot(rootJSON)
    IN  IF v.err # "" THEN [err |-> v.err, certs |-> v.certs, root |-> Nil]
        ELSE IF Unmarshal(rootJSON, "root").Roles[rootRole].Threshold < 1
          THEN [err |-> ErrBadRoot, certs |-> v.certs, root |-> Nil]
        ELSE [err |-> "", certs |-> v.certs, root |-> Unmarshal(rootJSON, "root")]

\* The roots a remote can serve: one to MaxKeyIDs root keys, each with a
\* certificate of some kind, maybe an entry under "kid", any threshold, and
\* valid signatures of some of the root keys.
InitCli ==
    /\ \E ids \in SUBSET (1..NumKeys), kid \in CertKinds \cup {"absent"},
          threshold \in 1..MaxThreshold :
          /\ Cardinality(ids) \in 1..MaxKeyIDs
          /\ \E certOf \in [ids -> CertKinds], sigs \in SUBSET ids :
                store = Marshal(CertRoot(
                    [k \in ids \cup {x \in {LiteralKid} : kid # "absent"} |->
                        IF k = LiteralKid THEN kid ELSE certOf[k]],
                    SortedSeq(ids), threshold, sigs))
    /\ call = NoCall

InitCliNoRoot == store \in {Nil, Corrupt} /\ call = NoCall

CliBootstrap ==
    /\ call = NoCall
    /\ LET out == cliBootstrapClient(store)
       IN  call' = [op |-> "bootstrapClient", err |-> out.err,
                    certs |-> out.certs, root |-> out.root]
    /\ UNCHANGED store

NextCli == CliBootstrap

SpecCli == (InitCli \/ InitCliNoRoot) /\ [][NextCli]_vars

\* ------------------------------------------------------- HTTPStore.GetMeta
MaxBody == 4
MaxDownloadSize == MaxBody - 1
ErrMaliciousServer == "store.ErrMaliciousServer"
ErrRoundTrip == "round trip failed"
StatusOK == 200
StatusNotFound == 404
StatusBadRequest == 400
HTTPStatusTooManyRequests == 429
StatusInternalServerError == 500

\* A body of n bytes; byte i carries the value i, so a prefix is recognisable.
BodyOf(n) == [i \in 1..n |-> i]

\* The response the transport hands over.  ContentLength is -1 when the
\* server declares none (chunked transfer), otherwise the length of the body.
Response(status, declared, n) ==
    [StatusCode |-> status,
     ContentLength |-> IF declared THEN n ELSE -1,
     Body |-> BodyOf(n)]

translateStatusToError(resp) ==
    CASE resp.StatusCode = StatusOK -> ""
      [] resp.StatusCode = StatusNotFound -> ErrMetaNotFound
      [] resp.StatusCode = StatusBadRequest -> ErrInvalidOperation
      [] resp.StatusCode = HTTPStatusTooManyRequests -> ErrInvalidOperation
      [] OTHER -> ErrServerUnavailable

\* io.LimitReader followed by ioutil.ReadAll: at most n bytes of the body.
LimitRead(body, n) == SubSeq(body, 1, IF Len(body) < n THEN Len(body) ELSE n)

GetMeta(fault, resp, size) ==
    LET cap == IF size = -1 THEN MaxDownloadSize ELSE size
    IN  IF fault = "url" THEN [err |-> ErrBadURL, body |-> <<>>, nil |-> TRUE]
        ELSE IF fault = "roundTrip" THEN [err |-> ErrRoundTrip, body |-> <<>>, nil |-> TRUE]
        ELSE IF translateStatusToError(resp) # ""
          THEN [err |-> translateStatusToError(resp), body |-> <<>>, nil |-> TRUE]
        ELSE IF resp.ContentLength > cap
          THEN [err |-> ErrMaliciousServer, body |-> <<>>, nil |-> TRUE]
        ELSE [err |-> "", body |-> LimitRead(resp.Body, cap), nil |-> FALSE]

InitGetMeta ==
    /\ \E status \in {StatusOK, StatusNotFound, StatusBadRequest,
                      HTTPStatusTooManyRequests, StatusInternalServerError},
          declared \in BOOLEAN, n \in 0..MaxBody :
          store = Response(status, declared, n)
    /\ call = NoCall

HTTPGetMeta ==
    /\ call = NoCall
    /\ \E fault \in {"", "url", "roundTrip"}, size \in {-1} \cup (0..MaxBody) :
          call' = [op |-> "GetMeta", fault |-> fault, size |-> size,
                   cap |-> IF size = -1 THEN MaxDownloadSize ELSE size,
                   res |-> GetMeta(fault, store, size)]
    /\ UNCHANGED store

NextGetMeta == HTTPGetMeta

SpecGetMeta == InitGetMeta /\ [][NextGetMeta]_vars

\* ------------------------------------- GetGRPCCredentials, NewGRPCKeyStore
DefaultDialTimeout == 5
DefaultBlockingTimeout == 30
ErrCertKeyPair == "GRPC KeyStore Config Error: configure both tls_client_cert and tls_client_key, or neither"
ErrCARequired == "GRPC KeyStore Config Error: root_ca required when tls_client_cert and tls_client_key are configured"
ErrLoadCert == "GRPC KeyStore Config Error: could not load tls_client_cert file"
ErrLoadCA == "GRPC KeyStore Config Error: could not load root_ca file"
ErrAppendCA == "GRPC KeyStore Config Error: failed to append ca certs in root_ca file"
ErrDial == "grpc: dial failed"

\* A file setting is "" (not configured) or names a file; the name tells what
\* reading the file gives: "ok" a usable PEM file, "unreadable" a read
\* error, "nopem" a readable file without a certificate in it.
FileSettings == {"", "ok", "unreadable", "nopem"}

GRPCClientConfig(cert, key, ca, dialTimeout, blockingTimeout) ==
    [Server |-> "server", TLSCertFile |-> cert, TLSKeyFile |-> key,
     TLSCAFile |-> ca, DialTimeout |-> dialTimeout,
     BlockingTimeout |-> blockingTimeout]

NoCreds == [Certificates |-> 0, InsecureSkipVerify |-> FALSE, RootCAs |-> FALSE]

GetGRPCCredentialsWithoutCACheck(config) ==
    LET cert == config.TLSCertFile
        key == config.TLSKeyFile
        ca == config.TLSCAFile
    IN  IF (cert = "" /\ key # "") \/ (cert # "" /\ key = "")
          THEN [err |-> ErrCertKeyPair, creds |-> NoCreds]
        ELSE IF cert # "" /\ ~(cert = "ok" /\ key = "ok")
          THEN [err |-> ErrLoadCert, creds |-> NoCreds]
        ELSE IF ca = "unreadable" THEN [err |-> ErrLoadCA, creds |-> NoCreds]
        ELSE IF ca = "nopem" THEN [err |-> ErrAppendCA, creds |-> NoCreds]
        ELSE [err |-> "",
              creds |-> [Certificates |-> IF cert # "" THEN 1 ELSE 0,
                         InsecureSkipVerify |-> (ca = ""),
                         RootCAs |-> (ca # "")]]

GetGRPCCredentials(config) ==
    LET cert == config.TLSCertFile
        key == config.TLSKeyFile
        ca == config.TLSCAFile
    IN  IF (cert = "" /\ key # "") \/ (cert # "" /\ key = "")
          THEN [err |-> ErrCertKeyPair, creds |-> NoCreds]
        ELSE IF cert # "" /\ key # "" /\ ca = ""
          THEN [err |-> ErrCARequired, creds |-> NoCreds]
        \* tls.LoadX509KeyPair(cert, key)
        ELSE IF cert # "" /\ ~(cert = "ok" /\ key = "ok")
          THEN [err |-> ErrLoadCert, creds |-> NoCreds]
        \* ioutil.ReadFile(ca), certPool.AppendCertsFromPEM
        ELSE IF ca = "unreadable" THEN [err |-> ErrLoadCA, creds |-> NoCreds]
        ELSE IF ca = "nopem" THEN [err |-> ErrAppendCA, creds |-> NoCreds]
        ELSE [err |-> "",
              creds |-> [Certificates |-> IF cert # "" THEN 1 ELSE 0,
                         InsecureSkipVerify |-> (ca = ""),
                         RootCAs |-> (ca # "")]]

NewGRPCKeyStore(config, dialOK) ==
    LET dialTimeout == IF config.DialTimeout = 0 THEN DefaultDialTimeout
                       ELSE config.DialTimeout
        blockingTimeout == IF config.BlockingTimeout = 0 THEN DefaultBlockingTimeout
                           ELSE config.BlockingTimeout
        got == GetGRPCCredentials(config)
    IN  IF got.err # "" THEN [err |-> got.err, creds |-> NoCreds, dialTimeout |-> dialTimeout, timeout |-> 0, keys |-> {}]
        ELSE IF ~dialOK THEN [err |-> ErrDial, creds |-> got.creds, dialTimeout |-> dialTimeout, timeout |-> 0, keys |-> {}]
        ELSE [err |-> "", creds |-> got.creds, dialTimeout |-> dialTimeout,
              timeout |-> blockingTimeout, keys |-> {}]

InitCreds ==
    /\ \E cert \in FileSettings \ {"nopem"}, key \in FileSettings \ {"nopem"},
          ca \in FileSettings, dt \in {0, 1}, bt \in {0, 1} :
          store = GRPCClientConfig(cert, key, ca, dt, bt)
    /\ call = NoCall

CredsGet ==
    /\ call = NoCall
    /\ call' = [op |-> "GetGRPCCredentials", err |-> GetGRPCCredentials(store).err,
                creds |-> GetGRPCCredentials(store).creds]
    /\ UNCHANGED store

CredsNewKeyStore ==
    /\ call = NoCall
    /\ \E dialOK \in BOOLEAN :
          call' = [op |-> "NewGRPCKeyStore", dialOK |-> dialOK,
                   err |-> NewGRPCKeyStore(store, dialOK).err,
                   creds |-> NewGRPCKeyStore(store, dialOK).creds,
                   ks |-> NewGRPCKeyStore(store, dialOK)]
    /\ UNCHANGED store

NextCreds == CredsGet \/ CredsNewKeyStore

SpecCreds == InitCreds /\ [][NextCreds]_vars

\* ------------------------------------------ GRPCKeyStore and GRPCPrivateKey
MaxRemoteKeys == 2
MaxOps == 3
RemoteKeyIDs == 1..MaxRemoteKeys
ErrGenerateRole == "GRPC keystore only supports generating root/target keys"
ErrGenerateRPC == "GRPCKeystore GenerateKey RPC Failed"
ErrParsePublicKey == "GRPCKeystore ParsePublicKey failed"
ErrAssociateRPC == "GRPCKeystore AssociateKey RPC Failed"
ErrAddRPC == "GRPC AddKey error"
ErrGetRPC == "GRPC GetKey error"
ErrRemoveRPC == "GRPC RemoveKey error"
ErrKeyNotFound == "trustmanager.ErrKeyNotFound"
ErrSignRPC == "GRPC Sign failed"
ErrParseSignature == "utils.ParseECDSASignature failed"
ErrUnsupportedAlgorithm == "GRPCkeystore unsupported SignatureAlgorithm"
ErrVerification == "GRPC signature verfication error"

\* Go maps as functions over the set of their keys.
MapSet(m, k, v) == [x \in DOMAIN m \cup {k} |-> IF x = k THEN v ELSE m[x]]

MapDelete(m, k) == [x \in DOMAIN m \ {k} |-> m[x]]

EmptyMap == [x \in {} |-> 0]

\* An entry of the local key map, and of the remote store's key list.
GRPCKey(role, remoteKeyID) == [role |-> role, remoteKeyID |-> remoteKeyID]

\* The remote id under which the server keeps the key with id k.
RemoteIDOf(k) == k + MaxRemoteKeys

buildKeyMap(keys) == [k \in DOMAIN keys |-> [Role |-> keys[k].role]]

\* The result of an operation: error, the local key map and the remote
\* store after it, the RPCs it issued in order, and what it returns.
KsResult(err, keys, remote, rpcs, res) ==
    [err |-> err, keys |-> keys, remote |-> remote, rpcs |-> rpcs, res |-> res]

GRPCGenerateKeyBeforeAssociate(keys, remote, role, fresh, genOK, parseOK, assocOK) ==
    IF role # rootRole /\ role # targetsRole
      THEN KsResult(ErrGenerateRole, keys, remote, <<>>, 0)
    ELSE IF ~genOK
      THEN KsResult(ErrGenerateRPC, keys, remote, <<"GenerateKey">>, 0)
    ELSE IF ~parseOK
      THEN KsResult(ErrParsePublicKey, keys, remote, <<"GenerateKey">>, 0)
    ELSE IF ~assocOK
      THEN KsResult(ErrAssociateRPC, MapSet(keys, fresh, GRPCKey(role, RemoteIDOf(fresh))),
                    remote, <<"GenerateKey", "AssociateKey">>, 0)
    ELSE KsResult("", MapSet(keys, fresh, GRPCKey(role, RemoteIDOf(fresh))),
                  MapSet(remote, fresh, GRPCKey(role, RemoteIDOf(fresh))),
                  <<"GenerateKey", "AssociateKey">>, fresh)

\* fresh is the id of the key the server generates; the server lists the key
\* under that id once AssociateKey has reached it.
GRPCGenerateKey(keys, remote, role, fresh, genOK, parseOK, assocOK) ==
    IF role # rootRole /\ role # targetsRole
      THEN KsResult(ErrGenerateRole, keys, remote, <<>>, 0)
    ELSE IF ~genOK
      THEN KsResult(ErrGenerateRPC, keys, remote, <<"GenerateKey">>, 0)
    ELSE IF ~parseOK
      THEN KsResult(ErrParsePublicKey, keys, remote, <<"GenerateKey">>, 0)
    ELSE IF ~assocOK
      THEN KsResult(ErrAssociateRPC, keys, remote, <<"GenerateKey", "AssociateKey">>, 0)
    ELSE KsResult("", MapSet(keys, fresh, GRPCKey(role, RemoteIDOf(fresh))),
                  MapSet(remote, fresh, GRPCKey(role, RemoteIDOf(fresh))),
                  <<"GenerateKey", "AssociateKey">>, fresh)

GRPCAddKey(keys, remote, role, k, rpcOK) ==
    IF ~rpcOK THEN KsResult(ErrAddRPC, keys, remote, <<"AddKey">>, 0)
    ELSE KsResult("", MapSet(keys, k, GRPCKey(role, RemoteIDOf(k))),
                  MapSet(remote, k, GRPCKey(role, RemoteIDOf(k))), <<"AddKey">>, 0)

\* The GetKey and RemoveKey RPCs fail when the transport fails or when the
\* server does not hold the key.
GRPCGetKey(keys, remote, k, rpcOK, parseOK) ==
    IF k \notin DOMAIN keys THEN KsResult(ErrKeyNotFound, keys, remote, <<>>, 0)
    ELSE IF ~rpcOK \/ k \notin DOMAIN remote
      THEN KsResult(ErrGetRPC, keys, remote, <<"GetKey">>, 0)
    ELSE IF ~parseOK THEN KsResult(ErrParsePublicKey, keys, remote, <<"GetKey">>, 0)
    ELSE KsResult("", keys, remote, <<"GetKey">>, k)

GRPCListKeys(keys, remote, rpcOK) ==
    IF Cardinality(DOMAIN keys) > 0
      THEN KsResult("", keys, remote, <<>>, buildKeyMap(keys))
    ELSE IF ~rpcOK
      THEN KsResult("", keys, remote, <<"ListKeys">>, buildKeyMap(EmptyMap))
    ELSE KsResult("", remote, remote, <<"ListKeys">>, buildKeyMap(remote))

GRPCRemoveKey(keys, remote, k, rpcOK) ==
    IF k \notin DOMAIN keys THEN KsResult(ErrKeyNotFound, keys, remote, <<>>, 0)
    ELSE IF ~rpcOK \/ k \notin DOMAIN remote
      THEN KsResult(ErrRemoveRPC, keys, remote, <<"RemoveKey">>, 0)
    ELSE KsResult("", MapDelete(keys, k), MapDelete(remote, k), <<"RemoveKey">>, 0)

\* Signatures.  by is the key that made the signature, msg the message it
\* is over, form its encoding: "raw", "asn1", or "garbage" for bytes that are
\* no signature at all.
SigAlgorithms == {"ecdsa", "eddsa", "rsapss", "rsapkcs1v15", "unknown"}
Messages == {"m1", "m2"}
Signature(by, msg, form) == [by |-> by, msg |-> msg, form |-> form]
NoSignature == Signature(0, "", "nil")

\* utils.ParseECDSASignature: accepts the raw and the ASN.1 form and returns
\* the raw form.
ParseECDSASignature(sig) ==
    IF sig.form \in {"raw", "asn1"} THEN Signature(sig.by, sig.msg, "raw")
    ELSE NoSignature

\* The form each verifier expects.
VerifierForm(alg) == IF alg \in {"rsapss", "rsapkcs1v15"} THEN "asn1" ELSE "raw"

VerifySignature(alg, pub, sig, msg) ==
    /\ sig.by = pub
    /\ sig.msg = msg
    /\ sig.form = VerifierForm(alg)

GRPCSignWithoutVerify(pub, alg, msg, rpcOK, rsp) ==
    LET sig == IF alg = "ecdsa" THEN ParseECDSASignature(rsp) ELSE rsp
    IN  IF ~rpcOK THEN [err |-> ErrSignRPC, sig |-> NoSignature]
        ELSE IF alg = "ecdsa" /\ sig = NoSignature
          THEN [err |-> ErrParseSignature, sig |-> NoSignature]
        ELSE IF alg \notin {"ecdsa", "eddsa", "rsapss", "rsapkcs1v15"}
          THEN [err |-> ErrUnsupportedAlgorithm, sig |-> NoSignature]
        ELSE [err |-> "", sig |-> sig]

GRPCSign(pub, alg, msg, rpcOK, rsp) ==
    LET sig == IF alg = "ecdsa" THEN ParseECDSASignature(rsp) ELSE rsp
    IN  IF ~rpcOK THEN [err |-> ErrSignRPC, sig |-> NoSignature]
        ELSE IF alg = "ecdsa" /\ sig = NoSignature
          THEN [err |-> ErrParseSignature, sig |-> NoSignature]
        ELSE IF alg \notin {"ecdsa", "eddsa", "rsapss", "rsapkcs1v15"}
          THEN [err |-> ErrUnsupportedAlgorithm, sig |-> NoSignature]
        ELSE IF ~VerifySignature(alg, pub, sig, msg)
          THEN [err |-> ErrVerification, sig |-> NoSignature]
        ELSE [err |-> "", sig |-> sig]

\* The remote store may already hold keys; the client starts with an empty
\* local key map (NewGRPCKeyStore).
RemoteStores ==
    UNION {[ids -> {GRPCKey(rootRole, 0), GRPCKey(snapshotRole, 0)}] :
              ids \in SUBSET RemoteKeyIDs}

InitKs ==
    /\ \E held \in RemoteStores :
          store = [remote |-> [k \in DOMAIN held |->
                                  GRPCKey(held[k].role, RemoteIDOf(k))],
                   keys |-> EmptyMap]
    /\ call = [op |-> "none", n |-> 0]

KsApply(name, arg, r) ==
    /\ store' = [remote |-> r.remote, keys |-> r.keys]
    /\ call' = [op |-> name, n |-> call.n + 1, arg |-> arg, err |-> r.err,
                rpcs |-> r.rpcs, res |-> r.res]

KsGenerateKey ==
    /\ call.n < MaxOps
    /\ \E role \in Range(CanonicalRoles), genOK \in BOOLEAN, parseOK \in BOOLEAN,
          assocOK \in BOOLEAN, fresh \in RemoteKeyIDs \ DOMAIN store.remote :
          KsApply("GenerateKey",
                  [role |-> role, genOK |-> genOK, parseOK |-> parseOK,
                   assocOK |-> assocOK],
                  GRPCGenerateKey(store.keys, store.remote, role, fresh,
                                  genOK, parseOK, assocOK))

KsAddKey ==
    /\ call.n < MaxOps
    /\ \E role \in {targetsRole, snapshotRole}, k \in RemoteKeyIDs, rpcOK \in BOOLEAN :
          KsApply("AddKey", k, GRPCAddKey(store.keys, store.remote, role, k, rpcOK))

KsGetKey ==
    /\ call.n < MaxOps
    /\ \E k \in RemoteKeyIDs, rpcOK \in BOOLEAN, parseOK \in BOOLEAN :
          KsApply("GetKey", k, GRPCGetKey(store.keys, store.remote, k, rpcOK, parseOK))

KsListKeys ==
    /\ call.n < MaxOps
    /\ \E rpcOK \in BOOLEAN :
          KsApply("ListKeys", rpcOK, GRPCListKeys(store.keys, store.remote, rpcOK))

KsRemoveKey ==
    /\ call.n < MaxOps
    /\ \E k \in RemoteKeyIDs, rpcOK \in BOOLEAN :
          KsApply("RemoveKey", k, GRPCRemoveKey(store.keys, store.remote, k, rpcOK))

NextKs ==
    \/ KsGenerateKey
    \/ KsAddKey
    \/ KsGetKey
    \/ KsListKeys
    \/ KsRemoveKey

SpecKs == InitKs /\ [][NextKs]_vars

\* Sign on the private key handle of key pub (NewGRPCPrivateKey); the server
\* answers the Sign RPC with any bytes at all.
NewGRPCPrivateKey(remoteID, signatureAlgorithm, pubKey) ==
    [PublicKey |-> pubKey, remoteKeyID |-> remoteID,
     signatureAlgorithm |-> signatureAlgorithm]

InitSign ==
    /\ \E pub \in RemoteKeyIDs, alg \in SigAlgorithms :
          store = NewGRPCPrivateKey(RemoteIDOf(pub), alg, pub)
    /\ call = NoCall

KsSign ==
    /\ call = NoCall
    /\ \E msg \in Messages, rpcOK \in BOOLEAN, by \in RemoteKeyIDs,
          over \in Messages, form \in {"raw", "asn1", "garbage"} :
          call' = [op |-> "Sign", msg |-> msg, rpcOK |-> rpcOK,
                   rsp |-> Signature(by, over, form),
                   err |-> GRPCSign(store.PublicKey, store.signatureAlgorithm,
                                    msg, rpcOK, Signature(by, over, form)).err,
                   sig |-> GRPCSign(store.PublicKey, store.signatureAlgorithm,
                                    msg, rpcOK, Signature(by, over, form)).sig]
    /\ UNCHANGED store

NextSign == KsSign

SpecSign == InitSign /\ [][NextSign]_vars

\* ------------------------------------------------ the vendored gotuf TufRepo
MaxRepoOps == 2
ErrNotLoaded == "role has not been loaded"
ErrInvalidRole == "errors.ErrInvalidRole"
ErrInvalidKey == "keys.ErrInvalidKey"

\* data.DefaultExpires(role), and the instants a caller may pass instead.
DefaultExpires(role) == "default"
ExpiresInputs == {"past", "later"}

\* The role bodies of the repository, each with its signatures.  Dirty is
\* not part of the serialized form.
TufRoot(keys, roles) ==
    [kind |-> "root", Version |-> 1, Expires |-> DefaultExpires(rootRole),
     Keys |-> keys, Roles |-> roles, Dirty |-> FALSE, sigs |-> {}]

TufTargets ==
    [kind |-> "targets", Version |-> 1, Expires |-> DefaultExpires(targetsRole),
     Dirty |-> FALSE, sigs |-> {}]

TufSnapshot(meta) ==
    [kind |-> "snapshot", Version |-> 1, Expires |-> DefaultExpires(snapshotRole),
     Meta |-> meta, Dirty |-> FALSE, sigs |-> {}]

TufTimestamp(meta) ==
    [kind |-> "timestamp", Version |-> 1, Expires |-> DefaultExpires(timestampRole),
     Meta |-> meta, Dirty |-> FALSE, sigs |-> {}]

\* NewTufRepo(keysDB, signer)
NewTufRepo == [Root |-> Nil, Targets |-> Nil, Snapshot |-> Nil, Timestamp |-> Nil]

\* ToSigned(): the data.Signed of a role body, with the body's signatures.
ToSigned(r) == [r EXCEPT !.Dirty = FALSE]

\* json.Marshal of a *data.Signed; a nil pointer gives the four bytes "null".
MarshalSigned(s) ==
    IF s = Nil THEN Bytes([kind |-> "null", Version |-> 3], 0) ELSE Marshal(s)

\* The result of a TufRepo method: the repository and the key database after
\* it, its error ("panic" for a nil dereference), and the data.Signed it
\* returns (Nil for none).
TufResult(repo, kdb, err, signed) ==
    [repo |-> repo, kdb |-> kdb, err |-> err, signed |-> signed]

\* tr.sign(signed, role) for the role's entry in the key database.
TufSign(body, role, kdb, crypto) ==
    IF role \notin DOMAIN kdb.roles THEN [err |-> "panic", signed |-> Nil]
    ELSE IF sign(kdb.roles[role], kdb, crypto) = {}
      THEN [err |-> ErrInvalidKey, signed |-> Nil]
    ELSE [err |-> "",
          signed |-> [ToSigned(body) EXCEPT !.sigs = sign(kdb.roles[role], kdb, crypto)]]

\* SignRoot, SignTargets, SignSnapshot, SignTimestamp: field names the role
\* body in the repository; expires is accepted and not used.
TufSignRole(repo, kdb, crypto, field, role, expires) ==
    IF repo[field] = Nil THEN TufResult(repo, kdb, "panic", Nil)
    ELSE LET got == TufSign(repo[field], role, kdb, crypto)
         IN  IF got.err # "" THEN TufResult(repo, kdb, got.err, Nil)
             ELSE TufResult([repo EXCEPT ![field].sigs = got.signed.sigs],
                            kdb, "", got.signed)

TufSignRoot(repo, kdb, crypto, expires) ==
    TufSignRole(repo, kdb, crypto, "Root", rootRole, expires)

TufSignTargets(repo, kdb, crypto, expires) ==
    TufSignRole(repo, kdb, crypto, "Targets", targetsRole, expires)

TufSignSnapshot(repo, kdb, crypto, expires) ==
    TufSignRole(repo, kdb, crypto, "Snapshot", snapshotRole, expires)

TufSignTimestamp(repo, kdb, crypto, expires) ==
    TufSignRole(repo, kdb, crypto, "Timestamp", timestampRole, expires)

\* UpdateSnapshot(role, s)
UpdateSnapshot(repo, kdb, role, s) ==
    IF repo.Snapshot = Nil THEN TufResult(repo, kdb, "panic", Nil)
    ELSE TufResult(
            [repo EXCEPT !.Snapshot.Meta =
                [r \in DOMAIN repo.Snapshot.Meta \cup {role} |->
                    IF r = role THEN NewFileMeta(MarshalSigned(s))
                    ELSE repo.Snapshot.Meta[r]]],
            kdb, "", Nil)

\* The roles of the key database are the root's own RootRole objects when
\* the repository was made by InitRepo (rootRoles[r] = &role.RootRole), so a
\* change of a root role shows in the key database as well.
WithRootRole(repo, kdb, role, keyIDs) ==
    [repo |-> [repo EXCEPT !.Root.Roles[role].KeyIDs = keyIDs, !.Root.Dirty = TRUE],
     kdb |-> [kdb EXCEPT !.roles[role].KeyIDs = keyIDs]]

\* The tail of AddBaseKeys and RemoveBaseKeys: the root is signed, the error
\* of SignRoot is dropped, and the snapshot's entry for the root is renewed.
ResignRoot(repo, kdb, crypto) ==
    LET sgn == TufSignRoot(repo, kdb, crypto, DefaultExpires(rootRole))
    IN  IF sgn.err = "panic" THEN sgn
        ELSE UpdateSnapshot(sgn.repo, kdb, rootRole, sgn.signed)

AddBaseKeys(repo, kdb, crypto, role, keys) ==
    IF repo.Root = Nil THEN TufResult(repo, kdb, ErrNotLoaded, Nil)
    ELSE IF keys # <<>> /\ role \notin DOMAIN repo.Root.Roles
      THEN TufResult(repo, kdb, "panic", Nil)
    ELSE LET added == [repo EXCEPT !.Root.Keys = @ \cup Range(keys)]
             db == [kdb EXCEPT !.keys = @ \cup Range(keys)]
             w == WithRootRole(added, db, role, repo.Root.Roles[role].KeyIDs \o keys)
         IN  ResignRoot(w.repo, w.kdb, crypto)

\* The key ids RemoveBaseKeys keeps for the role: for each id to remove, in
\* turn, every id of the role that differs from it.
RECURSIVE Keep(_, _)
Keep(roleKeyIDs, keyIDs) ==
    IF keyIDs = <<>> THEN <<>>
    ELSE SelectSeq(roleKeyIDs, LAMBDA rk : rk # Head(keyIDs))
            \o Keep(roleKeyIDs, Tail(keyIDs))

RemoveBaseKeys(repo, kdb, crypto, role, keyIDs) ==
    IF repo.Root = Nil THEN TufResult(repo, kdb, ErrNotLoaded, Nil)
    ELSE IF role \notin DOMAIN repo.Root.Roles
      THEN TufResult(repo, kdb, "panic", Nil)
    ELSE LET keep == Keep(repo.Root.Roles[role].KeyIDs, keyIDs)
             inUse == UNION {Range(repo.Root.Roles[r].KeyIDs) :
                                r \in DOMAIN repo.Root.Roles \ {role}}
             toDelete == Range(keyIDs) \ inUse
             w == WithRootRole(repo, kdb, role, keep)
             removed == [w.repo EXCEPT !.Root.Keys = @ \ toDelete]
         IN  ResignRoot(removed, w.kdb, crypto)

\* InitRepo(consistent): each step's effect stays when a later step fails.
InitRepo(repo, kdb, crypto) ==
    LET roles == Range(CanonicalRoles)
        rootKeys == UNION {Range(kdb.roles[r].KeyIDs) : r \in roles \cap DOMAIN kdb.roles}
        r1 == [repo EXCEPT !.Root = TufRoot(rootKeys, [r \in roles |-> kdb.roles[r]]),
                           !.Targets = TufTargets]
        sRoot == TufSignRoot(r1, kdb, crypto, DefaultExpires(rootRole))
        sTargets == TufSignTargets(sRoot.repo, kdb, crypto, DefaultExpires(targetsRole))
        r2 == [sTargets.repo EXCEPT !.Snapshot =
                  TufSnapshot([r \in {rootRole, targetsRole} |->
                      NewFileMeta(MarshalSigned(IF r = rootRole THEN sRoot.signed
                                                ELSE sTargets.signed))])]
        sSnapshot == TufSignSnapshot(r2, kdb, crypto, DefaultExpires(snapshotRole))
        r3 == [sSnapshot.repo EXCEPT !.Timestamp =
                  TufTimestamp([r \in {snapshotRole} |->
                      NewFileMeta(MarshalSigned(sSnapshot.signed))])]
    IN  IF ~(roles \subseteq DOMAIN kdb.roles) THEN TufResult(repo, kdb, ErrInvalidRole, Nil)
        ELSE IF sRoot.err # "" THEN TufResult(r1, kdb, sRoot.err, Nil)
        ELSE IF sTargets.err # "" THEN TufResult(sRoot.repo, kdb, sTargets.err, Nil)
        ELSE IF sSnapshot.err # "" THEN TufResult(r2, kdb, sSnapshot.err, Nil)
        ELSE TufResult(r3, kdb, "", Nil)

\* The key databases InitRepo may find: every key is known, each canonical
\* role is absent, has no key, or has keys.
RoleKeyChoices(role) ==
    IF role = rootRole THEN {<<>>, <<1>>, <<1, 2>>}
    ELSE IF role = targetsRole THEN {<<>>, <<2>>}
    ELSE {<<>>, <<NumKeys>>}

InitTufRepo ==
    /\ \E present \in SUBSET Range(CanonicalRoles), held \in {1..NumKeys, {1}} :
       \E ids \in [present -> UNION {RoleKeyChoices(r) : r \in Range(CanonicalRoles)}] :
          /\ \A r \in present : ids[r] \in RoleKeyChoices(r)
          /\ store = [repo |-> NewTufRepo,
                      kdb |-> [keys |-> 1..NumKeys,
                               roles |-> [r \in present |-> RootRole(ids[r], 1)]],
                      crypto |-> [keys |-> held]]
    /\ call = [op |-> "none", n |-> 0]

TufApply(name, arg, r) ==
    /\ store' = [store EXCEPT !.repo = r.repo, !.kdb = r.kdb]
    /\ call' = [op |-> name, n |-> call.n + 1, arg |-> arg, err |-> r.err,
                signed |-> r.signed]

TufInitRepo ==
    /\ call.n = 0
    /\ TufApply("InitRepo", 0, InitRepo(store.repo, store.kdb, store.crypto))

\* Key id sequences without repetition, as arguments.
KeyArgs == {s \in SeqsOf(1..NumKeys, 1, MaxKeyIDs) : Cardinality(Range(s)) = Len(s)}

TufAddBaseKeys ==
    /\ call.n < MaxRepoOps
    /\ \E role \in {rootRole, snapshotRole}, keys \in KeyArgs :
          TufApply("AddBaseKeys", keys,
                   AddBaseKeys(store.repo, store.kdb, store.crypto, role, keys))

TufRemoveBaseKeys ==
    /\ call.n < MaxRepoOps
    /\ \E role \in {rootRole, snapshotRole}, keyIDs \in KeyArgs :
          LET r == RemoveBaseKeys(store.repo, store.kdb, store.crypto, role, keyIDs)
          IN  /\ store' = [store EXCEPT !.repo = r.repo, !.kdb = r.kdb]
              /\ call' = [op |-> "RemoveBaseKeys", n |-> call.n + 1,
                          arg |-> keyIDs, role |-> role, err |-> r.err,
                          signed |-> r.signed]

TufRepoSignRoot ==
    /\ call.n < MaxRepoOps
    /\ \E expires \in ExpiresInputs :
          TufApply("SignRoot", expires,
                   TufSignRoot(store.repo, store.kdb, store.crypto, expires))

TufRepoSignTargets ==
    /\ call.n < MaxRepoOps
    /\ \E expires \in ExpiresInputs :
          TufApply("SignTargets", expires,
                   TufSignTargets(store.repo, store.kdb, store.crypto, expires))

TufRepoSignSnapshot ==
    /\ call.n < MaxRepoOps
    /\ \E expires \in ExpiresInputs :
          TufApply("SignSnapshot", expires,
                   TufSignSnapshot(store.repo, store.kdb, store.crypto, expires))

TufRepoSignTimestamp ==
    /\ call.n < MaxRepoOps
    /\ \E expires \in ExpiresInputs :
          TufApply("SignTimestamp", expires,
                   TufSignTimestamp(store.repo, store.kdb, store.crypto, expires))

NextTufRepo ==
    \/ TufInitRepo
    \/ TufAddBaseKeys
    \/ TufRemoveBaseKeys
    \/ TufRepoSignRoot
    \/ TufRepoSignTargets
    \/ TufRepoSignSnapshot
    \/ TufRepoSignTimestamp

SpecTufRepo == InitTufRepo /\ [][NextTufRepo]_vars

\* ----------------------------- signing a role with the cliCryptoService
ErrInsufficientSignatures == "signed.ErrInsufficientSignatures"
ErrParsePrivateKey == "x509: failed to parse private key"

\* cliCryptoService.Sign(keyIDs, payload): onDisk are the key ids with a
\* private key file, bad those whose file does not parse.  A key without a
\* file is skipped; the first file that does not parse ends the call.
cliSign(keyIDs, onDisk, bad) ==
    IF \E i \in DOMAIN keyIDs : keyIDs[i] \in onDisk \cap bad
      THEN [err |-> ErrParsePrivateKey, sigs |-> {}]
      ELSE [err |-> "", sigs |-> Range(keyIDs) \cap onDisk]

\* tr.sign(signed, role) with the cliCryptoService behind the signer: the
\* signer hands the key ids to the service and puts its signatures in place
\* of those the role's keys had made.
TufSignCli(body, role, kdb, onDisk, bad) ==
    LET ks == SelectSeq(kdb.roles[role].KeyIDs, LAMBDA kid : kid \in kdb.keys)
        got == cliSign(ks, onDisk, bad)
    IN  IF Len(ks) < 1 THEN [err |-> ErrInvalidKey, signed |-> Nil]
        ELSE IF got.err # "" THEN [err |-> got.err, signed |-> Nil]
        ELSE [err |-> "",
              signed |-> [ToSigned(body) EXCEPT !.sigs = (@ \ Range(ks)) \cup got.sigs]]

\* SignRoot(expires) with that signer.
TufSignRootCli(repo, kdb, onDisk, bad) ==
    LET got == TufSignCli(repo.Root, rootRole, kdb, onDisk, bad)
    IN  IF got.err # "" THEN TufResult(repo, kdb, got.err, Nil)
        ELSE TufResult([repo EXCEPT !.Root.sigs = got.signed.sigs], kdb, "", got.signed)

\* A loaded root whose root role lists keyIDs with the threshold, signed by
\* at least threshold of them; the key database is the one SetRoot fills.
InitCliSign ==
    /\ \E keyIDs \in KeyArgs, threshold \in 1..MaxThreshold,
          sigs \in SUBSET (1..NumKeys), onDisk \in SUBSET (1..NumKeys),
          bad \in {{}, {1}} :
          /\ threshold <= Len(keyIDs)
          /\ sigs \subseteq Range(keyIDs)
          /\ Cardinality(sigs) >= threshold
          /\ store = [repo |-> [NewTufRepo EXCEPT !.Root =
                                   [TufRoot(Range(keyIDs),
                                            [r \in {rootRole} |-> RootRole(keyIDs, threshold)])
                                    EXCEPT !.sigs = sigs]],
                      kdb |-> [keys |-> Range(keyIDs),
                               roles |-> [r \in {rootRole} |-> RootRole(keyIDs, threshold)]],
                      onDisk |-> onDisk, bad |-> bad]
    /\ call = NoCall

CliSignRoot ==
    /\ call = NoCall
    /\ \E expires \in ExpiresInputs :
          LET r == TufSignRootCli(store.repo, store.kdb, store.onDisk, store.bad)
          IN  /\ store' = [store EXCEPT !.repo = r.repo]
              /\ call' = [op |-> "SignRoot", arg |-> expires, err |-> r.err,
                          signed |-> r.signed, before |-> store.repo.Root.sigs]

NextCliSign == CliSignRoot

SpecCliSign == InitCliSign /\ [][NextCliSign]_vars

\* ------------------------------------- staging targets and applying them
ErrChangelistAdd == "changelist: cannot add"
Metas == {"m1", "m2"}

\* json.Marshal(meta) of a data.FileMeta.
FileMetaJSON(meta) == Marshal([kind |-> "filemeta", Version |-> 0, meta |-> meta])

\* changelist.NewTufChange(action, scope, type, path, content)
NewTufChange(action, scope, path, content) ==
    [Action |-> action, Scope |-> scope, Path |-> path, Content |-> content]

\* The repository as staging sees it: the targets of the in-memory targets
\* body, of the metadata files on disk and of the remote, the changelist,
\* and whether the targets key is at hand.
Staging(memory, disk, remote, changelist, canSign) ==
    [memory |-> memory, disk |-> disk, remote |-> remote,
     changelist |-> changelist, canSign |-> canSign]

AddTargetIntoTargets(st, name, meta, clOK) ==
    IF ~clOK THEN [st |-> st, err |-> ErrChangelistAdd]
    ELSE [st |-> [st EXCEPT !.memory = MapSet(@, name, meta),
                            !.changelist = Append(@, NewTufChange("create", "targets", name,
                                                                  FileMetaJSON(meta)))],
          err |-> ""]

\* r.AddTarget(target): clOK is whether the changelist can be opened and
\* written.
AddTarget(st, name, meta, clOK) ==
    IF ~clOK THEN [st |-> st, err |-> ErrChangelistAdd]
    ELSE [st |-> [st EXCEPT !.changelist =
                     Append(@, NewTufChange("create", "targets", name, FileMetaJSON(meta)))],
          err |-> ""]

\* r.RemoveTarget(targetName): the change carries no content.
RemoveTarget(st, name, clOK) ==
    IF ~clOK THEN [st |-> st, err |-> ErrChangelistAdd]
    ELSE [st |-> [st EXCEPT !.changelist =
                     Append(@, NewTufChange("delete", "targets", name, Nil))],
          err |-> ""]

\* repo.AddTargets("targets", files) for one file: the entry is written
\* before the targets are signed, so it stays when signing fails.
AddTargetsFile(files, path, meta, canSign) ==
    [files |-> MapSet(files, path, meta),
     err |-> IF canSign THEN "" ELSE ErrInvalidKey]

\* repo.RemoveTargets("targets", path)
RemoveTargetsFile(files, path) == [files |-> MapDelete(files, path), err |-> ""]

\* applyTargetsChange(repo, c) on the files of the targets role.
applyTargetsChangeFiles(files, c, canSign) ==
    LET meta == Unmarshal(c.Content, "filemeta")
    IN  IF meta = Nil THEN [files |-> files, err |-> ""]
        ELSE IF c.Action = "create" THEN AddTargetsFile(files, c.Path, meta.meta, canSign)
        ELSE IF c.Action = "delete" THEN RemoveTargetsFile(files, c.Path)
        ELSE [files |-> files, err |-> ""]

\* applyChangelist(repo, cl) on the files of the targets role.
RECURSIVE applyChangelistFiles(_, _, _)
applyChangelistFiles(files, changes, canSign) ==
    IF changes = <<>> THEN [files |-> files, err |-> ""]
    ELSE applyChangelistFiles(
             IF Head(changes).Scope = "targets"
               THEN applyTargetsChangeFiles(files, Head(changes), canSign).files
               ELSE files,
             Tail(changes), canSign)

FilesOver == UNION {[names -> Metas] : names \in SUBSET TargetNames}

InitStage ==
    /\ \E files \in FilesOver, canSign \in BOOLEAN :
          store = Staging(files, files, files, <<>>, canSign)
    /\ call = [op |-> "none", err |-> ""]

StageAddTarget ==
    /\ call.op # "applyChangelist"
    /\ Len(store.changelist) < MaxChanges
    /\ \E name \in TargetNames, meta \in Metas, clOK \in BOOLEAN :
          /\ store' = AddTarget(store, name, meta, clOK).st
          /\ call' = [op |-> "AddTarget", err |-> AddTarget(store, name, meta, clOK).err]

StageRemoveTarget ==
    /\ call.op # "applyChangelist"
    /\ Len(store.changelist) < MaxChanges
    /\ \E name \in TargetNames, clOK \in BOOLEAN :
          /\ store' = RemoveTarget(store, name, clOK).st
          /\ call' = [op |-> "RemoveTarget", err |-> RemoveTarget(store, name, clOK).err]

\* The step of Publish that applies what is staged to the loaded targets.
StageApply ==
    /\ call.op # "applyChangelist"
    /\ store' = [store EXCEPT !.memory =
                    applyChangelistFiles(store.memory, store.changelist, store.canSign).files]
    /\ call' = [op |-> "applyChangelist",
                err |-> applyChangelistFiles(store.memory, store.changelist, store.canSign).err]

NextStage == StageAddTarget \/ StageRemoveTarget \/ StageApply

SpecStage == InitStage /\ [][NextStage]_vars

\* ------------------------------------------- gotuf TufRepo.UpdateDelegations
MaxDelegations == 2

\* Role names a caller may pass, and filepath.Dir of each.
DelegationNames == {"targets/a", "targets/b", "targets/c"}
RoleNames == DelegationNames \cup {"targets/a/x", targetsRole, rootRole}
Dir(name) ==
    CASE name \in DelegationNames -> targetsRole
      [] name = "targets/a/x" -> "targets/a"
      [] OTHER -> "."

\* data.Role, with role.IsDelegation() and role.IsValid().
Role(name, keyIDs, threshold) ==
    [Name |-> name, KeyIDs |-> keyIDs, Threshold |-> threshold]
IsDelegation(role) == role.Name \in DelegationNames \cup {"targets/a/x"}
IsValid(role) == IsDelegation(role) \/ role.Name \in Range(CanonicalRoles)

\* A targets file of the repository with its delegations; data.NewTargets().
SignedTargetsFile(roles, keys, dirty, sigs) ==
    [Delegations |-> [Roles |-> roles, Keys |-> keys], Dirty |-> dirty, sigs |-> sigs]
NewTargets == SignedTargetsFile(<<>>, {}, TRUE, {})

DelegResult(st, err) == [st |-> st, err |-> err]

\* tr.SignTargets(role, expires) on the repository st: the role is looked up
\* in the key database and the file is signed with the role's keys.
SignTargetsFile(st, role) ==
    IF role \notin DOMAIN st.kdb.roles THEN DelegResult(st, "panic")
    ELSE IF sign(st.kdb.roles[role], st.kdb, st.crypto) = {}
      THEN DelegResult(st, ErrInvalidKey)
    ELSE DelegResult([st EXCEPT !.Targets[role].sigs =
                         sign(st.kdb.roles[role], st.kdb, st.crypto)], "")

\* The role's key ids followed by the ids of keys that it does not list yet.
RECURSIVE WithKeyIDs(_, _)
WithKeyIDs(keyIDs, keys) ==
    IF keys = <<>> THEN keyIDs
    ELSE WithKeyIDs(IF Head(keys) \in Range(keyIDs) THEN keyIDs
                    ELSE Append(keyIDs, Head(keys)),
                    Tail(keys))

\* The value of i after "for i, r = range roles { if r.Name == name { break } }"
\* with i := -1 before it, counted from 1 (0 stands for -1): the place of the
\* first role of that name, else the place of the last role the loop visited.
LoopIndex(roles, name) ==
    IF \E j \in DOMAIN roles : roles[j].Name = name
      THEN CHOOSE j \in DOMAIN roles :
              /\ roles[j].Name = name
              /\ \A h \in 1..(j - 1) : roles[h].Name # name
    ELSE Len(roles)

\* UpdateDelegations(role, keys, before); before is accepted and not used.
\* Each step's effect stays when a later step fails.
UpdateDelegations(st, role, keys) ==
    IF ~IsDelegation(role) \/ ~IsValid(role) THEN DelegResult(st, ErrInvalidRole)
    ELSE IF Dir(role.Name) \notin DOMAIN st.Targets THEN DelegResult(st, ErrInvalidRole)
    ELSE LET parent == Dir(role.Name)
             p == st.Targets[parent]
             r == [role EXCEPT !.KeyIDs = WithKeyIDs(role.KeyIDs, keys)]
             i == LoopIndex(p.Delegations.Roles, role.Name)
             roles == IF i >= 1 THEN [p.Delegations.Roles EXCEPT ![i] = r]
                      ELSE Append(p.Delegations.Roles, r)
             p1 == [p EXCEPT !.Delegations.Keys = @ \cup Range(keys),
                             !.Delegations.Roles = roles,
                             !.Dirty = TRUE]
             s1 == [st EXCEPT !.kdb.keys = @ \cup Range(keys),
                              !.Targets = MapSet(MapSet(st.Targets, parent, p1),
                                                 role.Name, NewTargets)]
             sp == SignTargetsFile(s1, parent)
             s2 == [sp.st EXCEPT !.Snapshot = MapSet(@, role.Name, parent)]
             sr == SignTargetsFile(s2, role.Name)
             s3 == [sr.st EXCEPT !.Snapshot = MapSet(@, role.Name, role.Name)]
         IN  IF sp.err # "" THEN sp
             ELSE IF sr.err # "" THEN sr
             ELSE DelegResult([s3 EXCEPT !.kdb.roles = MapSet(@, role.Name, r)], "")

\* A repository whose targets file delegates to up to MaxDelegations roles,
\* each with key 2 and a targets file of its own; the key database, which the
\* caller hands to NewTufRepo, knows these roles and may know more.
InitDeleg ==
    /\ \E names \in SeqsOf(DelegationNames, 0, MaxDelegations),
          more \in SUBSET DelegationNames, held \in SUBSET {1, 2} :
            /\ Cardinality(Range(names)) = Len(names)
            /\ LET listed == [j \in DOMAIN names |-> Role(names[j], <<2>>, 1)]
                   files == Range(names) \cup {targetsRole}
                   known == Range(names) \cup more \cup {targetsRole}
               IN  store = [Targets |->
                                [n \in files |->
                                    IF n = targetsRole
                                      THEN SignedTargetsFile(listed, {2}, FALSE, {1})
                                    ELSE SignedTargetsFile(<<>>, {}, FALSE, {2})],
                            Snapshot |-> [n \in files |-> n],
                            kdb |-> [keys |-> {1, 2},
                                     roles |-> [n \in known |->
                                         IF n = targetsRole THEN Role(n, <<1>>, 1)
                                         ELSE Role(n, <<2>>, 1)]],
                            crypto |-> [keys |-> held]]
    /\ call = NoCall

DelegUpdate ==
    /\ call = NoCall
    /\ \E name \in RoleNames, keyIDs \in {<<>>, <<2>>}, keys \in {<<>>, <<1>>, <<2>>} :
          LET role == Role(name, keyIDs, 1)
              got == UpdateDelegations(store, role, keys)
          IN  /\ store' = got.st
              /\ call' = [op |-> "UpdateDelegations", role |-> role, keys |-> keys,
                          err |-> got.err, before |-> store.Targets]

NextDeleg == DelegUpdate

SpecDeleg == InitDeleg /\ [][NextDeleg]_vars

\* ------------------------------------------- passwordwrap.PassStore, shared
NumGoroutines == 2
MaxPasswords == 2
MaxPassCalls == 3

Goroutines == 1..NumGoroutines
\* Passwords; 0 is the empty string os.Getenv gives for an unset variable.
Passwords == 1..MaxPasswords
Unknown == 0 - 1

\* A goroutine between calls, with the last call it made and what it returned.
Idle(op, ret, expect) == [pc |-> "idle", op |-> op, val |-> ret, expect |-> expect]

\* A goroutine inside a call, before the step pc, holding val (the password
\* to set, or the one read from the environment).
Inside(pc, op, val, expect, alone) ==
    [pc |-> pc, op |-> op, val |-> val, expect |-> expect, alone |-> alone]

SetInFlight == {g \in Goroutines : call.g[g].pc = "Set:cache"}

\* NewPassStore(): an empty cache; the variable is unset or holds a password.
\* store.settled is the password of the last Set that returned and that no
\* other Set overlapped, Unknown when there is none.
InitPass ==
    /\ \E env \in {0} \cup Passwords :
          store = [env |-> env, passwdCache |-> EmptyMap, settled |-> Unknown]
    /\ call = [n |-> 0, g |-> [g \in Goroutines |-> Idle("none", 0, Unknown)]]

\* Set, first half: os.Setenv(envVariable, newPassword).
PassSetEnv(g, alias, newPassword) ==
    /\ call.g[g].pc = "idle" /\ call.n < MaxPassCalls
    /\ store' = [store EXCEPT !.env = newPassword, !.settled = Unknown]
    /\ call' = [n |-> call.n + 1,
                g |-> [h \in Goroutines |->
                    IF h = g
                      THEN Inside("Set:cache", "Set", newPassword, Unknown,
                                  SetInFlight = {})
                    ELSE IF call.g[h].pc = "idle" THEN call.g[h]
                    ELSE [call.g[h] EXCEPT !.expect = Unknown, !.alone = FALSE]]]

\* Set, second half: under the write lock, passwdCache[alias] = newPassword.
PassSetCache(g, alias) ==
    /\ call.g[g].pc = "Set:cache"
    /\ store' = [store EXCEPT
                    !.passwdCache = MapSet(@, alias, call.g[g].val),
                    !.settled = IF call.g[g].alone THEN call.g[g].val ELSE Unknown]
    /\ call' = [call EXCEPT !.g[g] = Idle("Set", call.g[g].val, Unknown)]

\* Get, first part: under the read lock, the cache is looked up; a hit returns.
PassGetCache(g, alias) ==
    /\ call.g[g].pc = "idle" /\ call.n < MaxPassCalls
    /\ call' = [n |-> call.n + 1,
                g |-> [call.g EXCEPT ![g] =
                    IF alias \in DOMAIN store.passwdCache
                      THEN Idle("Get", store.passwdCache[alias], store.settled)
                    ELSE Inside("Get:env", "Get", 0, store.settled, FALSE)]]
    /\ UNCHANGED store

\* Get, second part: passwd = os.Getenv(envVariable), outside any lock.
PassGetEnv(g) ==
    /\ call.g[g].pc = "Get:env"
    /\ call' = [call EXCEPT !.g[g].pc = "Get:cache", !.g[g].val = store.env]
    /\ UNCHANGED store

\* Get, last part: under the write lock, passwdCache[alias] = passwd; return.
PassPutCache(g, alias) ==
    /\ call.g[g].pc = "Get:cache"
    /\ store' = [store EXCEPT !.passwdCache = MapSet(@, alias, call.g[g].val)]
    /\ call' = [call EXCEPT !.g[g] = Idle("Get", call.g[g].val, call.g[g].expect)]

PassSetStart == \E g \in Goroutines, p \in Passwords : PassSetEnv(g, "alias", p)
PassSetEnd == \E g \in Goroutines : PassSetCache(g, "alias")
PassGetStart == \E g \in Goroutines : PassGetCache(g, "alias")
PassGetRead == \E g \in Goroutines : PassGetEnv(g)
PassGetEnd == \E g \in Goroutines : PassPutCache(g, "alias")

NextPass == PassSetStart \/ PassSetEnd \/ PassGetStart \/ PassGetRead \/ PassGetEnd

SpecPass == InitPass /\ [][NextPass]_vars

\* ------------------------------------------------ trustmanager.X509FileStore
MaxCerts == 3
MaxCertOps == 2

\* A certificate is its fingerprint; certificates 1 and 3 share a subject.
Certs == 1..MaxCerts
\* A nil *x509.Certificate.
NoCert == 0
RawSubject(cert) == cert % 2

\* fileName(cert): the common name joined with the fingerprint.
fileName(cert) == <<RawSubject(cert), cert>>
NoFileName == <<>>

CertResult(st, err) == [st |-> st, err |-> err]

\* s.nameMap[name] without the fingerprint; a name never seen has no entry
\* before, and an empty one after.
FilterName(nameMap, name, fingerprint) ==
    MapSet(nameMap, name,
           IF name \in DOMAIN nameMap
             THEN SelectSeq(nameMap[name], LAMBDA x : x # fingerprint)
           ELSE <<>>)

\* addNamedCert(cert): os.Stat looks the relative file name up in the working
\* directory; addOK tells whether fileStore.Add can write.
addNamedCert(st, cert, addOK) ==
    IF cert \in DOMAIN st.fingerprintMap
      THEN CertResult(st, "certificate already in the store")
    ELSE IF fileName(cert) \notin st.cwd /\ ~addOK
      THEN CertResult(st, "fileStore.Add failed")
    ELSE CertResult(
            [st EXCEPT
                !.files = IF fileName(cert) \notin st.cwd
                            THEN @ \cup {fileName(cert)} ELSE @,
                !.fingerprintMap = MapSet(@, cert, cert),
                !.fileMap = MapSet(@, cert, fileName(cert)),
                !.nameMap = MapSet(@, RawSubject(cert),
                                   IF RawSubject(cert) \in DOMAIN @
                                     THEN Append(@[RawSubject(cert)], cert)
                                   ELSE <<cert>>)],
            "")

\* AddCert(cert)
AddCert(st, cert, addOK) ==
    IF cert = NoCert THEN CertResult(st, "adding nil Certificate to X509Store")
    ELSE IF cert \in st.rejected THEN CertResult(st, "certificate validation failed")
    ELSE addNamedCert(st, cert, addOK)

\* RemoveCert(cert): the indexes are cleared before the file is removed;
\* fileStore.Remove fails for a file that is not there, or when removeOK is
\* false.
RemoveCert(st, cert, removeOK) ==
    IF cert = NoCert THEN CertResult(st, "removing nil Certificate from X509Store")
    ELSE LET filename == IF cert \in DOMAIN st.fileMap THEN st.fileMap[cert]
                         ELSE NoFileName
             cleared == [st EXCEPT
                            !.fingerprintMap = MapDelete(@, cert),
                            !.fileMap = MapDelete(@, cert),
                            !.nameMap = FilterName(@, RawSubject(cert), cert)]
         IN  IF filename \notin st.files \/ ~removeOK
               THEN CertResult(cleared, "fileStore.Remove failed")
             ELSE CertResult([cleared EXCEPT !.files = @ \ {filename}], "")

\* GetCertificateByFingerprint(hexkID): the certificate, NoCert for the error.
GetCertificateByFingerprint(st, hexkID) ==
    IF hexkID \in DOMAIN st.fingerprintMap THEN st.fingerprintMap[hexkID] ELSE NoCert

\* newX509FileStore: the certificates of the directory are loaded; the
\* validator accepts every certificate or rejects certificate 1.
InitCerts ==
    /\ \E loaded \in SUBSET Certs, rejected \in {{}, {1}},
          cwd \in {{}, {fileName(2)}} :
            /\ loaded \cap rejected = {}
            /\ store = [fingerprintMap |-> [c \in loaded |-> c],
                        fileMap |-> [c \in loaded |-> fileName(c)],
                        nameMap |-> [n \in {RawSubject(c) : c \in loaded} |->
                            SelectSeq([i \in 1..MaxCerts |-> i],
                                      LAMBDA c : c \in loaded /\ RawSubject(c) = n)],
                        files |-> {fileName(c) : c \in loaded},
                        rejected |-> rejected,
                        cwd |-> cwd]
    /\ call = [op |-> "none", n |-> 0]

CertApply(name, cert, r) ==
    /\ call.n < MaxCertOps
    /\ store' = r.st
    /\ call' = [op |-> name, n |-> call.n + 1, cert |-> cert, err |-> r.err,
                before |-> store]

CertAdd ==
    \E cert \in Certs \cup {NoCert}, addOK \in BOOLEAN :
        CertApply("AddCert", cert, AddCert(store, cert, addOK))

CertRemove ==
    \E cert \in Certs \cup {NoCert}, removeOK \in BOOLEAN :
        CertApply("RemoveCert", cert, RemoveCert(store, cert, removeOK))

NextCerts == CertAdd \/ CertRemove

SpecCerts == InitCerts /\ [][NextCerts]_vars

\* ------------------------------------------------- claims on checkRoot
\* The last call was validateRoot and it accepted the proposed root.
RootAccepted == call.op = "validateRoot" /\ call.err = ""

\* The proposed root of the last call, and the stored (old) root, parsed.
ProposedRoot == call.newRoot.val
StoredRoot == store.root.val

\* The key ids a root lists for its root role, and those of them whose key
\* the root's key map holds.
ListedRootKeyIDs(root) == {root.Roles[rootRole].KeyIDs[i] :
                              i \in DOMAIN root.Roles[rootRole].KeyIDs}
DeclaredRootKeys(root) == ListedRootKeyIDs(root) \cap root.Keys

\* C1: when the key ids the accepted new root lists for the root role differ
\* from the old root's root-role keys, the new root carries valid signatures
\* of at least the old threshold of distinct old root keys.
C1_RotationSignedByOldKeys ==
    (RootAccepted /\ store.root.kind = "json"
       /\ ListedRootKeyIDs(ProposedRoot) # DeclaredRootKeys(StoredRoot))
    => Cardinality(ProposedRoot.sigs \cap DeclaredRootKeys(StoredRoot))
          >= StoredRoot.Roles[rootRole].Threshold

\* C2: an accepted root carries valid signatures of at least its own root
\* threshold of distinct keys among the root-role keys it declares itself,
\* with or without an old root and with or without a rotation.
C2_SignedByOwnKeys ==
    RootAccepted
    => Cardinality(ProposedRoot.sigs \cap DeclaredRootKeys(ProposedRoot))
          >= ProposedRoot.Roles[rootRole].Threshold

\* C2 witness: a root with threshold 2 is accepted over a stored root whose
\* root-role keys differ from the ones it lists.
C2_Witness ==
    /\ RootAccepted
    /\ store.root.kind = "json"
    /\ ListedRootKeyIDs(ProposedRoot) # DeclaredRootKeys(StoredRoot)
    /\ ProposedRoot.Roles[rootRole].Threshold = 2

\* C3: an accepted root has all four canonical roles, each with a threshold
\* of at least 1 and at least as many key ids as its threshold, and the
\* timestamp threshold is exactly 1.
C3_RequiredRoles ==
    RootAccepted
    => \A r \in {rootRole, targetsRole, snapshotRole, timestampRole} :
          /\ r \in DOMAIN ProposedRoot.Roles
          /\ ProposedRoot.Roles[r].Threshold >= 1
          /\ Len(ProposedRoot.Roles[r].KeyIDs) >= ProposedRoot.Roles[r].Threshold
          /\ (r = timestampRole => ProposedRoot.Roles[r].Threshold = 1)

\* C3 witness: an accepted root in which the targets role has threshold 2.
C3_Witness ==
    /\ RootAccepted
    /\ ProposedRoot.Roles[targetsRole].Threshold = 2
    /\ Len(ProposedRoot.Roles[targetsRole].KeyIDs) = 2

\* C4: a root is accepted only if the server holds a timestamp key for the
\* GUN and the id of that key is among the key ids of the root's timestamp
\* role.
C4_TimestampKeyMatches ==
    RootAccepted
    => /\ store.tsKey # EmptyKeyID
       /\ \E i \in DOMAIN ProposedRoot.Roles[timestampRole].KeyIDs :
             ProposedRoot.Roles[timestampRole].KeyIDs[i] = store.tsKey

\* C4 witness: an accepted root whose timestamp role lists two key ids, the
\* server's key being the second.
C4_Witness ==
    /\ RootAccepted
    /\ Len(ProposedRoot.Roles[timestampRole].KeyIDs) = 2
    /\ ProposedRoot.Roles[timestampRole].KeyIDs[1] # store.tsKey
    /\ ProposedRoot.Roles[timestampRole].KeyIDs[2] = store.tsKey

\* ---------------------------------------------- claims on validateUpdate
\* The last call was validateUpdate; it returned without an error.
Validated == call.op = "validateUpdate"
Accepted == Validated /\ call.err = ""

\* Whether the submitted update has a part for the role, and the bytes of it.
InUpdate(r) == \E i \in DOMAIN call.updates : call.updates[i].Role = r
DataOf(r) ==
    call.updates[CHOOSE i \in DOMAIN call.updates : call.updates[i].Role = r].Data

\* The bytes of a role that are in force if the update goes through: the
\* submitted ones, or the stored ones for a role that was not submitted.
EffectiveBytes(r) ==
    IF InUpdate(r) THEN DataOf(r)
    ELSE IF r = rootRole THEN store.root ELSE store.targets

\* The key ids of a role of the root that the root's key map holds.
RoleKeysOf(root, r) ==
    {root.Roles[r].KeyIDs[i] : i \in DOMAIN root.Roles[r].KeyIDs} \cap root.Keys

\* A snapshot meta entry names the given bytes by length and by every hash it
\* lists.
EntryMatches(entry, b) ==
    /\ entry.Length = ByteLen(b)
    /\ \A alg \in DOMAIN entry.Hashes : entry.Hashes[alg] = DoHash(alg, b)

\* C5: accepted targets of an update carry valid signatures of at least the
\* targets threshold of distinct targets keys of the effective root (the root
\* of the update if it has one, the stored root otherwise); an update without
\* a root is rejected with a validation error, whatever its targets are, when
\* no root is stored or the stored root does not parse.
C5_TargetsVerifiedAgainstEffectiveRoot ==
    /\ (Accepted /\ InUpdate(targetsRole))
       => LET root == EffectiveBytes(rootRole).val
          IN  /\ DataOf(targetsRole).kind = "json"
              /\ Cardinality(DataOf(targetsRole).val.sigs
                             \cap RoleKeysOf(root, targetsRole))
                    >= root.Roles[targetsRole].Threshold
    /\ (Validated /\ ~InUpdate(rootRole) /\ store.root.kind # "json")
       => (call.err = ErrValidation /\ call.out = <<>>)

\* C5 witness: targets are accepted together with a new root whose targets
\* role asks for more signatures than the stored root's.
C5_Witness ==
    /\ Accepted
    /\ InUpdate(targetsRole) /\ InUpdate(rootRole)
    /\ store.root.kind = "json"
    /\ store.root.val.Roles[targetsRole].Threshold = 1
    /\ DataOf(rootRole).val.Roles[targetsRole].Threshold = 2

\* C6: an update with a snapshot is accepted only if the snapshot has, for
\* every role of the update other than snapshot and timestamp, a meta entry
\* whose length and listed hashes are those of the submitted bytes.
C6_SnapshotCoversUpdate ==
    (Accepted /\ InUpdate(snapshotRole))
    => \A r \in {rootRole, targetsRole} :
          InUpdate(r)
          => /\ r \in DOMAIN DataOf(snapshotRole).val.Meta
             /\ EntryMatches(DataOf(snapshotRole).val.Meta[r], DataOf(r))

\* C6 witness: an accepted update of root, targets, snapshot and timestamp.
C6_Witness ==
    /\ Accepted
    /\ InUpdate(snapshotRole) /\ InUpdate(rootRole)
    /\ InUpdate(targetsRole) /\ InUpdate(timestampRole)
    /\ DataOf(targetsRole).enc = 1

\* C7: an update with a snapshot that omits a stored role (root or targets)
\* is accepted only if the snapshot's meta entry for that role matches the
\* length and the hashes of the stored bytes.
C7_SnapshotCoversStoredRoles ==
    (Accepted /\ InUpdate(snapshotRole))
    => \A r \in {rootRole, targetsRole} :
          (~InUpdate(r) /\ EffectiveBytes(r) # Nil)
          => /\ r \in DOMAIN DataOf(snapshotRole).val.Meta
             /\ EntryMatches(DataOf(snapshotRole).val.Meta[r], EffectiveBytes(r))

\* The errors of the steps that come before the snapshot key is looked at.
EarlierErrors == {ErrBadRoot, ErrValidation, ErrBadTargets, ErrLoadRepo, Panic}

\* The server holds a snapshot key and the effective root lists its id.
SnapshotKeyListed ==
    /\ store.snapKey # EmptyKeyID
    /\ EffectiveBytes(rootRole).kind = "json"
    /\ \E i \in DOMAIN EffectiveBytes(rootRole).val.Roles[snapshotRole].KeyIDs :
          EffectiveBytes(rootRole).val.Roles[snapshotRole].KeyIDs[i] = store.snapKey

\* C8: an update without a snapshot succeeds only if the server holds a
\* snapshot key whose id the effective root lists for the snapshot role; if
\* it does not, an update that got as far as the key check is rejected with
\* the bad-hierarchy error and nothing is returned.
C8_FallbackNeedsListedKey ==
    (Validated /\ ~InUpdate(snapshotRole) /\ ~SnapshotKeyListed)
    => /\ call.err # ""
       /\ call.out = <<>>
       /\ call.err \notin EarlierErrors => call.err = ErrBadHierarchy

\* C9: an accepted update without a snapshot comes back as the submitted
\* updates followed by one generated snapshot update, whose meta entries for
\* root and targets have the length and the sha256 of the effective bytes of
\* root and targets.
C9_GeneratedSnapshotMatchesBytes ==
    (Accepted /\ ~InUpdate(snapshotRole))
    => /\ Len(call.out) = Len(call.updates) + 1
       /\ SubSeq(call.out, 1, Len(call.updates)) = call.updates
       /\ LET g == call.out[Len(call.out)]
          IN  /\ g.Role = snapshotRole
              /\ g.Data.kind = "json"
              /\ g.Data.val.kind = "snapshot"
              /\ \A r \in {rootRole, targetsRole} :
                    /\ r \in DOMAIN g.Data.val.Meta
                    /\ g.Data.val.Meta[r].Length = ByteLen(EffectiveBytes(r))
                    /\ "sha256" \in DOMAIN g.Data.val.Meta[r].Hashes
                    /\ g.Data.val.Meta[r].Hashes["sha256"]
                          = DoHash("sha256", EffectiveBytes(r))

\* C10: a call of validateUpdate leaves the store as it was, and a call that
\* returns an error returns no update list.
C10_ReadOnly ==
    [][call'.op = "validateUpdate"
       => /\ store' = store
          /\ call'.err # "" => call'.out = <<>>]_vars

\* C10 witness: an update is rejected for its targets after its root, which
\* differs from the stored one, had been validated.
C10_Witness ==
    /\ Validated
    /\ call.err = ErrBadTargets
    /\ call.out = <<>>
    /\ InUpdate(rootRole)
    /\ store.root.kind = "json"
    /\ DataOf(rootRole) # store.root

\* ------------------------------------------------ claims on the race
\* The publishers whose update passed validation, and those admitted.
RaceValid == {p \in Publishers : call.pc[p] \in {"validated", "done"}
                                 /\ call.seen[p] # Nil
                                 /\ call.err[p] \in {"", ErrConflict}}
RaceAdmitted == {p \in RaceValid : call.pc[p] = "done" /\ call.err[p] = ""}

\* Every request has been answered, and every valid one was validated on the
\* state the requests were built on, before anything was persisted.
RacedPastValidation ==
    /\ call.op = "race"
    /\ \A p \in Publishers : call.pc[p] = "done"
    /\ \A p \in RaceValid : call.seen[p] = call.base

\* C11: of the updates that raced past validation on the same stored state
\* exactly one is admitted and every other gets a conflict; the store then
\* holds the admitted update applied to the state before and nothing of the
\* others; and whenever a step changes what is stored for a role, the
\* version stored for it grows.
C11_OneWinner ==
    /\ [](RacedPastValidation /\ RaceValid # {}
          => /\ Cardinality(RaceAdmitted) = 1
             /\ \A p \in RaceValid \ RaceAdmitted : call.err[p] = ErrConflict
             /\ \A p \in RaceAdmitted : store = WriteAll(call.base, call.out[p]))
    /\ [][\A r \in {rootRole, targetsRole, snapshotRole} :
             GetCurrent(store', r) # GetCurrent(store, r)
             => StoredVersion(store', r) > StoredVersion(store, r)]_vars

\* C11 witness: a new root and new targets, sent by two publishers without a
\* snapshot, raced past validation; one got in, the other got the conflict.
C11_Witness ==
    /\ RacedPastValidation
    /\ \E p, q \in RaceValid :
          /\ call.err[p] = "" /\ call.err[q] = ErrConflict
          /\ Len(call.out[p]) = 2 /\ call.out[p][1].Role = rootRole
          /\ Len(call.out[q]) = 2 /\ call.out[q][1].Role = targetsRole
          /\ call.out[q][2].Role = snapshotRole

\* --------------------------------- claims on GetOrCreateSnapshotKey
\* C12: all calls for the GUN, one after another or in parallel, return one
\* and the same key, the one the store holds; a caller whose insert failed
\* because the key existed returns the stored key and not the one it created.
C12_OneSnapshotKey ==
    call.op = "key"
    => /\ Cardinality(call.returned) <= 1
       /\ call.returned \subseteq {store.snapKey} \ {EmptyKeyID}
       /\ \A p \in Callers :
             call.path[p] = "exists"
             => (call.ret[p] = store.snapKey /\ call.ret[p] # call.created[p])

\* C12 witness: two callers found no key and both created one; the first got
\* its key stored, the second got the key-exists error and returned the
\* first caller's key.
C12_Witness ==
    /\ call.op = "key"
    /\ \E p, q \in Callers :
          /\ call.path[p] = "created" /\ call.path[q] = "exists"
          /\ call.created[q] # EmptyKeyID
          /\ call.ret[q] = call.created[p]

\* ---------------------------------------- claims on GetOrCreateSnapshot
SnapshotCalled == call # NoCall /\ call.op = "GetOrCreateSnapshot"

StoredSnapshotOf(st) == Unmarshal(GetCurrent(st, snapshotRole), "snapshot")

\* The signer can sign for the snapshot role of the stored root.
CanResign(st, holdsKeys) ==
    /\ Unmarshal(GetCurrent(st, rootRole), "root") # Nil
    /\ sign(Unmarshal(GetCurrent(st, rootRole), "root").Roles[snapshotRole],
            KeyDB(Unmarshal(GetCurrent(st, rootRole), "root")),
            CryptoService(st, holdsKeys)) # {}

\* C13: GetOrCreateSnapshot returns the stored snapshot bytes unchanged,
\* whatever the stored root is, when the stored snapshot is not expired; when
\* it is expired it returns a newly signed snapshot that differs from the
\* stored one and is not expired; when there is no stored snapshot, the
\* stored snapshot is corrupt, or a new snapshot is needed but the root is
\* missing or corrupt or the signer has no snapshot key, it returns an error
\* and no snapshot.
C13_GetOrCreateSnapshot ==
    SnapshotCalled =>
        LET old == GetCurrent(call.before, snapshotRole)
            sn == StoredSnapshotOf(call.before)
        IN  /\ (sn # Nil /\ ~sn.Expired) =>
                   call.err = "" /\ call.data = old
            /\ (sn # Nil /\ sn.Expired /\ CanResign(call.before, call.holdsKeys)) =>
                   /\ call.err = ""
                   /\ call.data # old
                   /\ Unmarshal(call.data, "snapshot") # Nil
                   /\ ~Unmarshal(call.data, "snapshot").Expired
                   /\ Unmarshal(call.data, "snapshot").sigs # {}
            /\ (sn = Nil \/ (sn.Expired /\ ~CanResign(call.before, call.holdsKeys))) =>
                   call.err # "" /\ call.data = Nil

C13_Witness ==
    /\ SnapshotCalled
    /\ StoredSnapshotOf(call.before) # Nil
    /\ StoredSnapshotOf(call.before).Expired
    /\ call.before.targets = Nil
    /\ call.err = ""
    /\ call.data # call.before.snapshot

\* ------------------------------------------------- claims on the client
PublishCalled == call.op = "Publish"

ClientCalled == call.op \in {"Publish", "ListTargets", "GetTargetByName"}

\* The remote answered the request for the root with 404.
RemoteNotFound == call.net = "up" /\ call.before.remote.root = Nil

\* Root, targets and snapshot on disk all parse.
LocalLoads(st) ==
    \A r \in {rootRole, targetsRole, snapshotRole} : Unmarshal(st.cache[r], r) # Nil

\* The metadata the operation worked from: that on disk on a first publish
\* and when the remote could not be reached, that of the remote otherwise.
WorkedFrom ==
    IF call.net = "up" /\ ~RemoteNotFound THEN call.before.remote
                                          ELSE call.before.cache

Uploaded == call.uploads # <<>>

UploadAccepted == Uploaded /\ call.err = ""

\* C14: when fetching the remote root reports not-found, Publish loads root,
\* targets and snapshot from the local store and every upload it makes
\* includes the root, or it returns ErrRepoNotInitialized without uploading
\* if the local load fails; when bootstrapping fails with any other error
\* Publish returns that error, uploads nothing and leaves the changelist (and
\* the remote) untouched.
C14_PublishBootstrap ==
    PublishCalled =>
        /\ (RemoteNotFound /\ LocalLoads(call.before)) =>
              /\ call.err # ErrRepoNotInitialized
              /\ call.steps[2] = "bootstrapRepo"
              /\ Uploaded =>
                    /\ rootRole \in DOMAIN call.uploads[1]
                    /\ Unmarshal(call.uploads[1][rootRole], "root") # Nil
                    /\ Unmarshal(call.uploads[1][rootRole], "root").Version >=
                          Unmarshal(call.before.cache.root, "root").Version
              /\ (call.env.fault = "none" /\ call.env.held = ClientKeys) => UploadAccepted
        /\ (RemoteNotFound /\ ~LocalLoads(call.before)) =>
              /\ call.err = ErrRepoNotInitialized
              /\ ~Uploaded
              /\ store = call.before
        /\ (~RemoteNotFound /\ call.boot.err # "") =>
              /\ call.err = call.boot.err
              /\ ~Uploaded
              /\ store = call.before

C14_Witness ==
    /\ PublishCalled
    /\ RemoteNotFound
    /\ UploadAccepted
    /\ rootRole \in DOMAIN call.uploads[1]
    /\ store.remote.root = call.before.cache.root

\* C15: every Publish that reaches the server does so with exactly one
\* upload, which always contains targets and snapshot, and contains the root
\* if and only if this is a first publish, the root is dirty, or the root
\* expires within six months.
C15_OneUpload ==
    PublishCalled =>
        /\ Len(call.uploads) <= 1
        /\ Len(SelectSeq(call.steps, LAMBDA x : x = "SetMultiMeta")) = Len(call.uploads)
        /\ Uploaded =>
              /\ {targetsRole, snapshotRole} \subseteq DOMAIN call.uploads[1]
              /\ DOMAIN call.uploads[1] \subseteq {rootRole, targetsRole, snapshotRole}
              /\ rootRole \in DOMAIN call.uploads[1] <=>
                    \/ RemoteNotFound
                    \/ call.env.rootDirty
                    \/ Unmarshal(WorkedFrom.root, "root").Expires # "far"

C15_Witness ==
    /\ PublishCalled
    /\ UploadAccepted
    /\ ~RemoteNotFound
    /\ ~call.env.rootDirty
    /\ rootRole \in DOMAIN call.uploads[1]

\* Step a comes before step b wherever both were taken.
Before(a, b) ==
    \A i, j \in DOMAIN call.steps :
        (call.steps[i] = a /\ call.steps[j] = b) => i < j

\* C16: within one Publish, the root (when it is re-signed) and the targets
\* are signed before the snapshot is signed, so that the snapshot sent
\* describes the root and targets sent with it; the upload happens only after
\* every signing and serialization step; if a signing step fails, nothing is
\* uploaded.
C16_SignThenUpload ==
    PublishCalled =>
        /\ Before("SignRoot", "SignTargets")
        /\ Before("SignRoot", "SignSnapshot")
        /\ Before("SignTargets", "SignSnapshot")
        /\ \A s \in {"SignRoot", "SignTargets", "SignSnapshot", "Marshal"} :
              Before(s, "SetMultiMeta")
        /\ Uploaded =>
              /\ {"SignTargets", "SignSnapshot", "Marshal"} \subseteq Range(call.steps)
              /\ LET sent == call.uploads[1]
                     meta == Unmarshal(sent[snapshotRole], "snapshot").Meta
                 IN  /\ meta[targetsRole] = NewFileMeta(sent[targetsRole])
                     /\ rootRole \in DOMAIN sent =>
                           meta[rootRole] = NewFileMeta(sent[rootRole])
                     /\ \A r \in DOMAIN sent : Unmarshal(sent[r], r).sigs # {}
        /\ (call.steps # <<>> /\
            call.steps[Len(call.steps)] \in {"SignRoot", "SignTargets", "SignSnapshot"}) =>
              call.err # "" /\ ~Uploaded /\ store.remote = call.before.remote
        /\ ~(Range(TargetsKeys(1)) \cup {PublisherSnapshotKey} \subseteq call.env.held) =>
              ~Uploaded

C16_Witness ==
    /\ PublishCalled
    /\ UploadAccepted
    /\ "SignRoot" \in Range(call.steps)
    /\ store.remote.snapshot = call.uploads[1][snapshotRole]

\* A staged change whose application fails.
FailsToApply(c) == c.Action = "create" /\ ~c.valid

\* C17 as claimed: Publish clears the changelist if and only if the upload
\* succeeded; on any failure before or during the upload (bootstrap error,
\* expired metadata, changelist application error, signing error, server
\* rejection) the staged changes are all still present afterwards.
C17_ClearedIffUploaded ==
    PublishCalled =>
        /\ UploadAccepted => store.changelist = <<>>
        /\ ~UploadAccepted => store.changelist = call.before.changelist
        /\ (call.err # "" \/
            ("applyChangelist" \in Range(call.steps) /\
             \E i \in DOMAIN call.before.changelist :
                 FailsToApply(call.before.changelist[i]))) =>
              store.changelist = call.before.changelist

\* The root the operation worked from is neither dirty nor near its expiry,
\* and nothing is staged.
EmptyPublish ==
    /\ PublishCalled
    /\ call.before.changelist = <<>>
    /\ ~call.env.rootDirty
    /\ Unmarshal(WorkedFrom.root, "root") # Nil
    /\ Unmarshal(WorkedFrom.root, "root").Expires = "far"

UpdateExpired ==
    /\ ClientCalled
    /\ call.boot.err = ""
    /\ \/ Unmarshal(WorkedFrom.root, "root").Expires = "past"
       \/ /\ Unmarshal(WorkedFrom.targets, "targets") # Nil
          /\ Unmarshal(WorkedFrom.snapshot, "snapshot") # Nil
          /\ \/ Unmarshal(WorkedFrom.targets, "targets").Expired
             \/ Unmarshal(WorkedFrom.snapshot, "snapshot").Expired

\* C19: when the client update reports that a role's metadata is expired,
\* Publish, ListTargets and GetTargetByName return the Expired error; Publish
\* then uploads nothing and does not clear the changelist, and the lookup
\* operations return no target data, whatever targets the cache holds.
C19_ExpiredIsFatal ==
    UpdateExpired =>
        /\ call.err = ErrExpired
        /\ store.remote = call.before.remote
        /\ store.changelist = call.before.changelist
        /\ store.cache = call.before.cache
        /\ call.op = "Publish" => ~Uploaded
        /\ call.op # "Publish" => call.targets = {}

C19_Witness ==
    /\ UpdateExpired
    /\ call.op = "ListTargets"
    /\ call.net = "up"
    /\ Unmarshal(call.before.cache.targets, "targets") # Nil
    /\ Unmarshal(call.before.cache.targets, "targets").Targets # {}
    /\ call.err = ErrExpired

\* The fetch of the remote root failed, with 404 or otherwise.
FetchFailed == ClientCalled /\ (call.net # "up" \/ call.before.remote.root = Nil)

\* C20 as claimed: when the remote answers 404 for the root, the client falls
\* back to the root in the local cache; on any other fetch failure it also
\* falls back to the cache; only when neither remote nor cache provides a
\* root does bootstrap fail.
C20_FallbackOnEveryFailure ==
    ClientCalled =>
        /\ (FetchFailed /\ call.before.cache.root # Nil) => call.boot.cached
        /\ call.boot.err # "" => (FetchFailed /\ call.before.cache.root = Nil)

\* C20, amended: when the remote answers 404 for the root, bootstrap fails
\* with the not-found error without using the cache; on any other fetch
\* failure it falls back to the root in the cache and fails with the fetch
\* error when the cache has none; with a root from either place it fails only
\* if that root does not parse or is not trusted.
C20_FallbackUnless404 ==
    ClientCalled =>
        /\ RemoteNotFound => (call.boot.err = ErrMetaNotFound /\ ~call.boot.cached)
        /\ (FetchFailed /\ ~RemoteNotFound /\ call.before.cache.root # Nil) =>
              call.boot.cached
        /\ (FetchFailed /\ ~RemoteNotFound /\ call.before.cache.root = Nil) =>
              (call.boot.err \in {ErrServerUnavailable, ErrBadURL} /\ ~call.boot.cached)
        /\ ~FetchFailed => ~call.boot.cached
        /\ (~FetchFailed \/ call.boot.cached) =>
              (call.boot.err = "" <=>
                  /\ Unmarshal(WorkedFrom.root, "root") # Nil
                  /\ 1 \in Unmarshal(WorkedFrom.root, "root").sigs)

C20_Witness ==
    /\ ClientCalled
    /\ RemoteNotFound
    /\ Unmarshal(call.before.cache.root, "root") # Nil
    /\ call.boot.err = ErrMetaNotFound
    /\ call.op = "ListTargets"

\* -------------------------------- claims on the command line validateRoot
CliCalled == call.op = "bootstrapClient"

\* The certificate the root holds under the key id itself is trusted.
OwnCertTrusted(root, kID) ==
    /\ kID \in DOMAIN root.Keys
    /\ PinnedFor(root.Keys[kID]) \/ ChainsToCA(root.Keys[kID])

\* C21 as claimed: a key id listed under the root role enters the working
\* key set only if the certificate stored in the root body under that same
\* key id is in the pinned-leaf set with the GUN as CommonName or chains to a
\* CA of the CA set for the GUN; a key id whose own certificate is untrusted
\* is never accepted.
C21_OnlyTrustedKeysAccepted ==
    CliCalled =>
        \A kID \in call.certs : OwnCertTrusted(Unmarshal(store, "root"), kID)

\* C22 as claimed: a fetched root is accepted only if it carries valid
\* signatures of at least as many distinct trusted root keys as the threshold
\* the fetched root declares for the root role; otherwise it is never set as
\* the root of the repository.
C22_ThresholdOfTrustedKeys ==
    (CliCalled /\ (call.err = "" \/ call.root # Nil)) =>
        LET root == Unmarshal(store, "root")
        IN  /\ root # Nil
            /\ Cardinality({kID \in root.sigs \cap Range(root.Roles[rootRole].KeyIDs) :
                               OwnCertTrusted(root, kID)})
                  >= root.Roles[rootRole].Threshold

\* ------------------------------------------------ claims on HTTPStore.GetMeta
GetMetaCalled == call.op = "GetMeta"

\* The server answered 200 with a body longer than the cap of the call.
OversizedBody ==
    /\ GetMetaCalled
    /\ call.fault = ""
    /\ store.StatusCode = StatusOK
    /\ Len(store.Body) > call.cap

\* C23: whenever the response body is longer than size bytes (size -1 meaning
\* the fixed maximum download size), GetMeta fails with the malicious-server
\* error and returns no bytes, whether or not the response declares a
\* Content-Length; it never returns a silently truncated body.
C23_OversizedBodyIsMalicious ==
    OversizedBody =>
        /\ call.res.err = ErrMaliciousServer
        /\ call.res.nil

\* ---------------------------------------------- claims on GetGRPCCredentials
CredsCalled == call.op = "GetGRPCCredentials"

ClientCertSet == store.TLSCertFile # ""

ClientKeySet == store.TLSKeyFile # ""

RootCASet == store.TLSCAFile # ""

ConfigError == call.err \in {ErrCertKeyPair, ErrCARequired}

\* C26 as stated: GetGRPCCredentials succeeds only when client certificate,
\* client key and CA are all set or all unset, and every mixed configuration
\* (among them a CA without certificate and key) is a configuration error.
C26_AllOrNone ==
    CredsCalled =>
        /\ call.err = "" => (ClientCertSet /\ ClientKeySet /\ RootCASet) \/ (~ClientCertSet /\ ~ClientKeySet /\ ~RootCASet)
        /\ ~((ClientCertSet /\ ClientKeySet /\ RootCASet) \/ (~ClientCertSet /\ ~ClientKeySet /\ ~RootCASet)) => ConfigError

\* C26 (amended): the configurations rejected as configuration errors are
\* exactly a certificate without a key, a key without a certificate, and a
\* certificate and key without a CA.  A CA without certificate and key is
\* accepted: the server is verified against the CA and no client certificate
\* is presented.  Apart from configuration errors the call fails only when a
\* configured file does not load.
C26_ClientAuthNeedsCA ==
    CredsCalled =>
        /\ ConfigError <=> \/ ClientCertSet # ClientKeySet
                           \/ ClientCertSet /\ ClientKeySet /\ ~RootCASet
        /\ call.err = "" <=>
              /\ ~ConfigError
              /\ \A f \in {store.TLSCertFile, store.TLSKeyFile, store.TLSCAFile} :
                    f \in {"", "ok"}
        /\ call.err = "" =>
              /\ call.creds.Certificates = (IF ClientCertSet THEN 1 ELSE 0)
              /\ call.creds.InsecureSkipVerify = ~RootCASet
              /\ call.creds.RootCAs = RootCASet

C26_Witness ==
    /\ CredsCalled
    /\ ~ClientCertSet /\ ~ClientKeySet /\ RootCASet
    /\ call.err = ""
    /\ ~call.creds.InsecureSkipVerify

\* -------------------------------------------------- claims on GRPCKeyStore
\* The step is a call of the named key store operation.
KsStep(name) == call'.op = name /\ call'.n = call.n + 1

\* C24: GenerateKey for a role other than root or targets fails without any
\* RPC and leaves the local key map alone; for root and targets the key
\* enters the local key map only if both the GenerateKey and the
\* AssociateKey RPC succeeded.
C24_GenerateKeyLocalMap ==
    [][KsStep("GenerateKey") =>
          /\ call'.arg.role \notin {rootRole, targetsRole} =>
                /\ call'.err = ErrGenerateRole
                /\ call'.rpcs = <<>>
                /\ store'.keys = store.keys
          /\ store'.keys # store.keys =>
                /\ call'.arg.role \in {rootRole, targetsRole}
                /\ call'.arg.genOK /\ call'.arg.assocOK
                /\ call'.err = ""
                /\ call'.rpcs = <<"GenerateKey", "AssociateKey">>
                /\ store'.keys = MapSet(store.keys, call'.res,
                                        GRPCKey(call'.arg.role, RemoteIDOf(call'.res)))
          /\ call'.err # "" => store'.keys = store.keys]_vars

\* The server generated a targets key but AssociateKey failed.
C24_Witness ==
    /\ call.op = "GenerateKey"
    /\ call.arg.role = targetsRole
    /\ call.arg.genOK /\ call.arg.parseOK /\ ~call.arg.assocOK
    /\ call.err = ErrAssociateRPC
    /\ call.rpcs = <<"GenerateKey", "AssociateKey">>

\* C27 as stated: ListKeys returns exactly the keys of the remote store, and
\* GetKey and RemoveKey find every key the remote store holds, after any
\* sequence of operations of one client against a remote store that may
\* already hold other keys (transport failures of the list RPC aside).
C27_ListKeysMatchesRemote ==
    /\ call.op = "ListKeys" /\ call.arg => DOMAIN call.res = DOMAIN store.remote
    /\ call.op \in {"GetKey", "RemoveKey"} /\ call.err = ErrKeyNotFound =>
          call.arg \notin DOMAIN store.remote

\* ------------------------------------------- claims on GRPCPrivateKey.Sign
SignCalled == call.op = "Sign"

\* What Sign verifies: the response, normalised for ECDSA keys.
Normalized ==
    IF store.signatureAlgorithm = "ecdsa" THEN ParseECDSASignature(call.rsp)
    ELSE call.rsp

\* C25: Sign never returns a signature that does not verify against the
\* key's known public key over the given message; on RPC failure, for an
\* unsupported signature algorithm, and when the (normalised) response does
\* not verify, it returns an error and no signature.
C25_SignVerifiesLocally ==
    SignCalled =>
        /\ call.err = "" =>
              VerifySignature(store.signatureAlgorithm, store.PublicKey, call.sig, call.msg)
        /\ call.err # "" => call.sig = NoSignature
        /\ \/ ~call.rpcOK
           \/ store.signatureAlgorithm = "unknown"
           \/ ~VerifySignature(store.signatureAlgorithm, store.PublicKey, Normalized, call.msg)
           => call.err # ""

\* The server answered with a well-formed signature made by another key.
C25_Witness ==
    /\ SignCalled
    /\ call.rpcOK
    /\ store.signatureAlgorithm = "eddsa"
    /\ call.rsp.form = "raw" /\ call.rsp.msg = call.msg
    /\ call.rsp.by # store.PublicKey
    /\ call.err = ErrVerification
    /\ call.sig = NoSignature

\* ------------------------------------------------ claims on the gotuf TufRepo
\* C28: after any sequence of AddBaseKeys and RemoveBaseKeys calls on a
\* loaded repository, a RemoveBaseKeys call that names several key ids
\* included, every key id listed in any role of the root is among the
\* root's keys.
C28_RoleKeysInRootKeys ==
    store.repo.Root # Nil =>
        \A r \in DOMAIN store.repo.Root.Roles :
            Range(store.repo.Root.Roles[r].KeyIDs) \subseteq store.repo.Root.Keys

InitRepoCalled == call.op = "InitRepo"

\* A canonical role is absent from the key database or has no key.
RoleWithoutKey ==
    \E r \in Range(CanonicalRoles) :
        \/ r \notin DOMAIN store.kdb.roles
        \/ store.kdb.roles[r].KeyIDs = <<>>

\* What a successful InitRepo leaves behind.
Initialized ==
    /\ store.repo.Root # Nil /\ store.repo.Targets # Nil
    /\ store.repo.Snapshot # Nil /\ store.repo.Timestamp # Nil
    /\ DOMAIN store.repo.Root.Roles = Range(CanonicalRoles)
    /\ store.repo.Snapshot.Meta =
          [r \in {rootRole, targetsRole} |->
              NewFileMeta(MarshalSigned(ToSigned(
                  IF r = rootRole THEN store.repo.Root ELSE store.repo.Targets)))]
    /\ store.repo.Timestamp.Meta =
          [r \in {snapshotRole} |->
              NewFileMeta(MarshalSigned(ToSigned(store.repo.Snapshot)))]

\* C29: InitRepo fails if any of the four canonical roles is absent from the
\* key database or has no key; after it succeeds root, targets, snapshot and
\* timestamp exist, the root has entries for all four roles, the snapshot's
\* entries for root and targets are the length and sha256 of the signed root
\* and targets, and the timestamp's entry for the snapshot those of the
\* signed snapshot.
C29_InitRepo ==
    InitRepoCalled =>
        /\ RoleWithoutKey => call.err # ""
        /\ call.err = "" => Initialized

SignRoleCalled == call.op \in {"SignRoot", "SignTargets", "SignSnapshot", "SignTimestamp"}

\* The role body the last Sign call signed.
SignedBody ==
    CASE call.op = "SignRoot" -> store.repo.Root
      [] call.op = "SignTargets" -> store.repo.Targets
      [] call.op = "SignSnapshot" -> store.repo.Snapshot
      [] call.op = "SignTimestamp" -> store.repo.Timestamp

\* C30: SignSnapshot(expires), and likewise SignRoot, SignTargets and
\* SignTimestamp, sets the expiry of the role body it signs to expires, so
\* that after SignSnapshot with an instant in the past the repository's
\* snapshot is expired.
C30_SignSetsExpiry ==
    SignRoleCalled /\ call.err = "" =>
        /\ SignedBody.Expires = call.arg
        /\ call.signed.Expires = call.arg

\* -------------------------------------------------- claims on signing a role
CliSignCalled == call.op = "SignRoot" /\ "before" \in DOMAIN call

\* The role's key ids for which a usable private key is available.
AvailableSigners ==
    (Range(store.kdb.roles[rootRole].KeyIDs) \cap store.onDisk) \ store.bad

\* C31: signing a role succeeds only if at least threshold of the keys
\* listed for the role produced a signature; when private keys for fewer
\* than threshold of the role's key ids are available, signing returns an
\* insufficient-signatures error and the role's stored signatures are not
\* replaced by a smaller set.
C31_ThresholdOfSigners ==
    CliSignCalled =>
        /\ call.err = "" =>
              Cardinality(store.repo.Root.sigs \cap Range(store.kdb.roles[rootRole].KeyIDs))
                  >= store.kdb.roles[rootRole].Threshold
        /\ Cardinality(AvailableSigners) < store.kdb.roles[rootRole].Threshold =>
              /\ call.err = ErrInsufficientSignatures
              /\ store.repo.Root.sigs = call.before

\* ------------------------------------------- claims on staging and applying
\* The fold the changelist stands for: a create sets the target's metadata,
\* a delete removes the target.
RECURSIVE FoldStaged(_, _)
FoldStaged(files, changes) ==
    IF changes = <<>> THEN files
    ELSE FoldStaged(
             IF Head(changes).Action = "create"
               THEN MapSet(files, Head(changes).Path,
                           Unmarshal(Head(changes).Content, "filemeta").meta)
               ELSE MapDelete(files, Head(changes).Path),
             Tail(changes))

\* C32: applying the changelist yields the target set obtained by folding
\* the staged add and remove operations in insertion order over the current
\* targets: a staged remove deletes the target, a remove of an absent name
\* changes nothing, an add of a present name overwrites its metadata.
C32_ApplyIsFold ==
    [][call'.op = "applyChangelist" /\ call.op # "applyChangelist" =>
          store'.memory = FoldStaged(store.memory, store.changelist)]_vars

\* The changelist without its entry at position i.
DropAt(s, i) == [j \in 1..(Len(s) - 1) |-> IF j < i THEN s[j] ELSE s[j + 1]]

\* C33: AddTarget and RemoveTarget only append one entry to the changelist
\* (none when they fail): they change neither the in-memory targets, nor the
\* metadata on disk, nor the remote; and an identical add staged twice in a
\* row publishes the same targets as the add staged once.
C33_StagingOnlyAppends ==
    [][/\ call'.op \in {"AddTarget", "RemoveTarget"} =>
             /\ store'.memory = store.memory
             /\ store'.disk = store.disk
             /\ store'.remote = store.remote
             /\ IF call'.err = ""
                  THEN /\ Len(store'.changelist) = Len(store.changelist) + 1
                       /\ SubSeq(store'.changelist, 1, Len(store.changelist)) = store.changelist
                       /\ store'.changelist[Len(store'.changelist)].Action =
                             (IF call'.op = "AddTarget" THEN "create" ELSE "delete")
                  ELSE store'.changelist = store.changelist
       /\ call'.op = "applyChangelist" /\ call.op # "applyChangelist" =>
             \A i \in 2..Len(store.changelist) :
                 (store.changelist[i] = store.changelist[i - 1]
                    /\ store.changelist[i].Action = "create") =>
                 store'.memory =
                     applyChangelistFiles(store.memory, DropAt(store.changelist, i),
                                          store.canSign).files]_vars

\* The same add was staged twice and then applied.
C33_Witness ==
    /\ call.op = "applyChangelist"
    /\ Len(store.changelist) = 2
    /\ store.changelist[1] = store.changelist[2]
    /\ store.changelist[1].Action = "create"
    /\ store.changelist[1].Path \in DOMAIN store.memory
    /\ store.disk = store.remote

\* ------------------------------------- claims on errors of applyChangelist
\* Publish reached applyChangelist with a staged change that the
\* repository's add-targets operation rejects.
ApplyFails ==
    /\ PublishCalled
    /\ "applyChangelist" \in Range(call.steps)
    /\ \E i \in DOMAIN call.before.changelist : FailsToApply(call.before.changelist[i])

\* C39: if applying any staged change fails, applyChangelist returns an
\* error, so that Publish aborts before signing and uploading and does not
\* clear the changelist.
C39_ApplyErrorAbortsPublish ==
    ApplyFails =>
        /\ call.err # ""
        /\ call.uploads = <<>>
        /\ "SignTargets" \notin Range(call.steps)
        /\ store.changelist = call.before.changelist
        /\ store.remote = call.before.remote

\* ------------------------------------- claims on the hashes of a snapshot
\* The submitted snapshot has an entry of the right length, but without a
\* sha256 hash, for a role that the update carries.
HashlessEntry ==
    /\ Validated /\ InUpdate(snapshotRole)
    /\ DataOf(snapshotRole).kind = "json"
    /\ \E r \in {rootRole, targetsRole} :
          /\ InUpdate(r)
          /\ r \in DOMAIN DataOf(snapshotRole).val.Meta
          /\ DataOf(snapshotRole).val.Meta[r].Length = ByteLen(DataOf(r))
          /\ "sha256" \notin DOMAIN DataOf(snapshotRole).val.Meta[r].Hashes

\* C34: an accepted update with a snapshot has, for every submitted role other
\* than snapshot and timestamp, a sha256 hash in the snapshot's meta entry
\* that equals the sha256 of the submitted bytes; an entry with the right
\* length but no sha256 hash is rejected.
C34_AcceptedSnapshotHasSha256 ==
    (Accepted /\ InUpdate(snapshotRole))
    => \A r \in {rootRole, targetsRole} :
          InUpdate(r)
          => /\ r \in DOMAIN DataOf(snapshotRole).val.Meta
             /\ "sha256" \in DOMAIN DataOf(snapshotRole).val.Meta[r].Hashes
             /\ DataOf(snapshotRole).val.Meta[r].Hashes["sha256"]
                   = DoHash("sha256", DataOf(r))

\* ------------------------------- claims on validateRoot with a bad old root
\* The stored root does not parse, or parses to a root without an entry for
\* the root role.
StoredRootUnusable ==
    /\ store.root # Nil
    /\ \/ Unmarshal(store.root, "root") = Nil
       \/ rootRole \notin DOMAIN Unmarshal(store.root, "root").Roles

\* C36: validateRoot over a stored root that does not parse, or that has no
\* entry for the root role, ends by accepting the new root or by returning an
\* error value; it never dereferences the missing old root role.
C36_NoCrashOnBadOldRoot ==
    (call.op = "validateRoot" /\ StoredRootUnusable) => call.err # Panic

\* ------------------------------------------------ claims on RemoveBaseKeys
\* How often the key id k is listed in the sequence ids.
TimesListed(ids, k) == Cardinality({i \in DOMAIN ids : ids[i] = k})

\* This step is a RemoveBaseKeys call on a loaded repository.
RemoveBaseKeysStep ==
    /\ call'.op = "RemoveBaseKeys" /\ call'.n = call.n + 1
    /\ store.repo.Root # Nil
    /\ call'.role \in DOMAIN store.repo.Root.Roles

\* C37: after RemoveBaseKeys(role, ids...), for any number of ids, none of
\* the ids is left in the role's key id list, every other key id of the role
\* is listed as before, and a named key of the root is deleted from root.keys
\* exactly if no other role lists it.
C37_RemovesExactlyGivenKeys ==
    [][RemoveBaseKeysStep =>
        LET role == call'.role
            ids == Range(call'.arg)
            before == store.repo.Root.Roles[role].KeyIDs
            after == store'.repo.Root.Roles[role].KeyIDs
            others == UNION {Range(store.repo.Root.Roles[r].KeyIDs) :
                                r \in DOMAIN store.repo.Root.Roles \ {role}}
        IN  /\ Range(after) \cap ids = {}
            /\ \A k \in Range(before) \ ids :
                  TimesListed(after, k) = TimesListed(before, k)
            /\ \A k \in ids \cap store.repo.Root.Keys :
                  k \notin store'.repo.Root.Keys <=> k \notin others]_vars

\* --------------------------------------------- claims on UpdateDelegations
\* UpdateDelegations was called with a valid delegation role whose parent
\* the repository holds, and it returned.
DelegUpdated ==
    /\ call.op = "UpdateDelegations"
    /\ IsDelegation(call.role) /\ IsValid(call.role)
    /\ Dir(call.role.Name) \in DOMAIN call.before
    /\ call.err # "panic"

\* The delegation list of the role's parent before and after the call.
DelegationsBefore == call.before[Dir(call.role.Name)].Delegations.Roles
DelegationsAfter == store.Targets[Dir(call.role.Name)].Delegations.Roles

NewDelegation == \A j \in DOMAIN DelegationsBefore :
                     DelegationsBefore[j].Name # call.role.Name

\* C40: UpdateDelegations appends a role whose name the parent does not
\* delegate to yet at the end of the parent's delegation list and leaves
\* every existing delegation as it was; for a name that is there already it
\* replaces exactly that entry and the list keeps its length.
C40_AppendOrReplace ==
    DelegUpdated =>
        IF NewDelegation
          THEN /\ Len(DelegationsAfter) = Len(DelegationsBefore) + 1
               /\ SubSeq(DelegationsAfter, 1, Len(DelegationsBefore)) = DelegationsBefore
               /\ DelegationsAfter[Len(DelegationsAfter)].Name = call.role.Name
        ELSE /\ Len(DelegationsAfter) = Len(DelegationsBefore)
             /\ \A j \in DOMAIN DelegationsBefore :
                   IF DelegationsBefore[j].Name = call.role.Name
                     THEN DelegationsAfter[j].Name = call.role.Name
                   ELSE DelegationsAfter[j] = DelegationsBefore[j]

\* ------------------------------------------------------ claims on PassStore
\* C35: once a Set of a password has returned, every Get of the alias that
\* starts afterwards and returns before a later Set starts returns that
\* password, and when no call is running the cache holds it: a Get that ran
\* beside the Set leaves no older value in the cache.
C35_GetSeesLastSet ==
    /\ \A g \in Goroutines :
          (/\ call.g[g].pc = "idle" /\ call.g[g].op = "Get"
           /\ call.g[g].expect # Unknown)
          => call.g[g].val = call.g[g].expect
    /\ ((\A g \in Goroutines : call.g[g].pc = "idle") /\ store.settled # Unknown)
       => /\ "alias" \in DOMAIN store.passwdCache
          /\ store.passwdCache["alias"] = store.settled

\* -------------------------------------------------- claims on X509FileStore
\* The fingerprints the name index lists, and whether it lists each of them
\* once and under the subject of its certificate.
NamedFingerprints ==
    UNION {Range(store.nameMap[n]) : n \in DOMAIN store.nameMap}
NameIndexExact ==
    \A n \in DOMAIN store.nameMap :
        /\ \A i, j \in DOMAIN store.nameMap[n] :
              store.nameMap[n][i] = store.nameMap[n][j] => i = j
        /\ \A c \in Range(store.nameMap[n]) : RawSubject(c) = n

\* C38: after any sequence of AddCert and RemoveCert calls, failed ones
\* included, a certificate is retrievable by its fingerprint exactly if its
\* file is in the backing file store, and the fingerprint, file-name and
\* subject-name indexes hold the same certificates; a RemoveCert that fails
\* leaves the certificate retrievable, and an AddCert of a certificate that
\* is present is rejected and changes nothing.
C38_IndexesMatchFiles ==
    /\ \A c \in Certs :
          GetCertificateByFingerprint(store, c) # NoCert <=> fileName(c) \in store.files
    /\ DOMAIN store.fileMap = DOMAIN store.fingerprintMap
    /\ NamedFingerprints = DOMAIN store.fingerprintMap
    /\ NameIndexExact
    /\ (/\ call.op = "RemoveCert" /\ call.err # "" /\ call.cert # NoCert
        /\ GetCertificateByFingerprint(call.before, call.cert) # NoCert)
       => GetCertificateByFingerprint(store, call.cert) # NoCert
    /\ (/\ call.op = "AddCert" /\ call.cert # NoCert
        /\ GetCertificateByFingerprint(call.before, call.cert) # NoCert)
       => call.err # "" /\ store = call.before

====
